---- MODULE Spec2Model ----
(***************************************************************************)
(* Model of the Excel OLAP add-in pipeline of excel-custom-func-ts:        *)
(*   - chunk planning      (src/src/utils/data-processor.ts)               *)
(*   - the refresh handler (src/src/taskpane/taskpane.ts)                  *)
(*                                                                         *)
(* SpecPlan    : DataPreprocessor.createChunks applied to dimension data   *)
(*               drawn from bounded sets, under a strategy set through     *)
(*               updateChunkingStrategy.                                   *)
(* SpecRefresh : handleRefreshData / handleCancelOperation as interleaved  *)
(*               run-to-completion steps between awaits.                   *)
(* SpecParse   : ResponseParser.parseAndMapResponse applied to response    *)
(*               arrays drawn from bounded sets, under options given to    *)
(*               the constructor (src/src/utils/response-parser.ts).       *)
(* SpecAssemble: ResponseParser.assembleChunks applied to response arrays  *)
(*               in any array order.                                       *)
(* SpecMap     : ResponseParser.mapToExcelCells applied to assembled       *)
(*               responses and structures drawn from bounded sets.         *)
(* SpecGroup   : ResponseParser.groupMappingsByRange applied to sets of    *)
(*               mappings with distinct target cells, in any order.        *)
(* SpecExtract : DataPreprocessor.extractDimensions applied to selections  *)
(*               whose row-header cells are drawn from a small alphabet.   *)
(* SpecPartial : the responses to the chunks of a plan, one of them        *)
(*               possibly failed, handed to parseAndMapResponse under      *)
(*               'skip' or 'interpolate'.                                  *)
(* SpecSelection: one handleRefreshData invocation on a drawn selection,   *)
(*               preprocessData computed from the selection.               *)
(* SpecAuth    : AuthManager login, logout, the refresh timer and one      *)
(*               makeAuthenticatedRequest call as interleaved steps        *)
(*               between awaits (src/src/utils/auth-manager.ts).           *)
(* SpecGrid    : validateRange, cleanEmptyRows and identifyStructure        *)
(*               applied to selections drawn from bounded sets, and the    *)
(*               cell mappings of the response to such a selection.        *)
(***************************************************************************)
EXTENDS Integers, Sequences, FiniteSets, TLC

VARIABLES
    \* ---- chunk planning (DataPreprocessor) ----
    dimensions,         \* DimensionData handed to createChunks
    chunkingStrategy,   \* DataPreprocessor.chunkingStrategy
    chunks,             \* the chunks array being built / returned
    planPc,             \* "idle" | "loop" | "done"
    targetChunkCount,   \* chunkCount of createChunks / targetChunkCount
    membersPerChunk,    \* membersPerChunk of createDimensionBasedChunks
    loopI,              \* loop variable i of createDimensionBasedChunks
    \* ---- refresh handler (taskpane) ----
    currentOperation,   \* module-level currentOperation (NoOperation = null)
    pc,                 \* position of each handleRefreshData invocation
    opChunks,           \* preprocessed.chunks.length of each invocation
    opI,                \* loop variable i of each invocation
    responses,          \* the local responses array of each invocation
    inflight,           \* chunk requests sent and not yet settled
    dispatched,         \* history: chunk indices passed to processChunk
    cancelled,          \* history: cancel hit this operation's object
    cancelledAfter,     \* history: responses held when cancel hit the loop
    parseCall,          \* history: the parseAndMapResponse call made
    \* ---- response parser (ResponseParser) ----
    chunkResponses,     \* the responses argument of parseAndMapResponse
    assemblyOptions,    \* ResponseParser.assemblyOptions
    originalStructure,  \* the originalStructure argument
    parsePc,            \* "idle" | "assembled" | "mapped" | "grouped" |
                        \* "groupedUnsorted" | "returned"
    completeData,       \* what assembleChunks returned
    cellMappings,       \* what mapToExcelCells returned
    rangeGroups,        \* what groupMappingsByRange returned
    written,            \* the range groups assigned to the sheet
    mappingResult,      \* the MappingResult returned
    \* ---- the selected range (DataPreprocessor) ----
    range,              \* selectedRange.values
    cleanedRange,       \* cleanedRange of preprocessData
    gridPc,             \* "idle" | "structure" | "preprocessed" | "failed" |
                        \* "mapped" | "extracted"
    \* ---- authentication (AuthManager) ----
    authState,          \* AuthManager.authState: isAuthenticated and token
    storedToken,        \* localStorage[TOKEN_STORAGE_KEY] (0: no item)
    refreshTimer,       \* AuthManager.refreshTimer: "none" | "scheduled" | "stale"
    loginPc,            \* position of the login call
    timerPc,            \* position of the refreshToken call of the timer
    requestPc,          \* position / result of the makeAuthenticatedRequest call
    attempts,           \* history: fetches of the endpoint sent by the call
    issued,             \* tokens issued so far by the identity service
    loggedOut           \* history: logout has run and no login started since

planVars == <<dimensions, chunkingStrategy, chunks, planPc,
              targetChunkCount, membersPerChunk, loopI>>

refreshVars == <<currentOperation, pc, opChunks, opI, responses, inflight,
                 dispatched, cancelled, cancelledAfter, parseCall>>

parserVars == <<chunkResponses, assemblyOptions, originalStructure, parsePc,
                completeData, cellMappings, rangeGroups, written,
                mappingResult>>

gridVars == <<range, cleanedRange, gridPc>>

authVars == <<authState, storedToken, refreshTimer, loginPc, timerPc,
              requestPc, attempts, issued, loggedOut>>

\* what the actions of one component leave alone
nonPlanVars == <<refreshVars, parserVars, gridVars, authVars>>

nonRefreshVars == <<planVars, parserVars, gridVars, authVars>>

nonParserVars == <<planVars, refreshVars, gridVars, authVars>>

nonAuthVars == <<planVars, refreshVars, parserVars, gridVars>>

vars == <<planVars, refreshVars, parserVars, gridVars, authVars>>

----------------------------------------------------------------------------
\* Bounds of the model

\* most column headers in the drawn dimension data
MaxCols == 3

\* most row dimensions in the drawn dimension data
MaxDims == 2

\* most unique members of one row dimension
MaxMembers == 5

\* maxCellsPerChunk passed to updateChunkingStrategy ranges over
\* -MaxNegativeSetting..MaxCellsSetting
MaxNegativeSetting == 2

MaxCellsSetting == 6

\* handleRefreshData invocations in one behaviour
MaxOps == 2

\* most chunks preprocessing returns to the invocations of one behaviour,
\* taken together
MaxChunks == 3

\* most responses in the array handed to parseAndMapResponse; their chunk
\* indices lie in 0..MaxResponses-1
MaxResponses == 3

\* most rows the responses of one array hold, taken together
MaxRows == 2

\* most rows of the assembled response handed to mapToExcelCells
MaxMapRows == 2

\* most values of one such row
MaxWidth == 3

\* greatest dataStartRow / dataStartCol handed to mapToExcelCells
MaxStart == 2

\* most mappings handed to groupMappingsByRange
MaxMappings == 4

\* greatest targetRow / targetCol of such a mapping
MaxTargetRow == 1

MaxTargetCol == 3

\* most fetches of the endpoint one makeAuthenticatedRequest call sends
MaxAttempts == 3

\* most tokens the identity service issues
MaxTokens == 4

\* most rows / columns of the selected range
MaxGridRows == 4

MaxGridCols == 3

\* most cells of the selected range
MaxGridCells == 12

\* most row-header cells (data rows x header columns) of a selection
\* handed to extractDimensions
MaxHeaderCells == 6

\* greatest totalCells the drawn dimension data can have
MaxTotalCells == (IF MaxCols > 1 THEN MaxCols ELSE 1) * MaxDims * MaxMembers

\* iterations of the planning loop followed when its bound is Infinity
MaxLoopIter == MaxTotalCells + 2

\* IEEE +Infinity (1 / 0): greater than every finite value of the model
Infinity == 2 * (MaxLoopIter + 1)

----------------------------------------------------------------------------
\* JavaScript arithmetic and array helpers

Min(a, b) == IF a < b THEN a ELSE b

Max(a, b) == IF a > b THEN a ELSE b

\* Math.ceil(a / b) for a >= 0, b > 0
CeilDiv(a, b) == (a + b - 1) \div b

\* Array.prototype.slice(start, end) (0-based, end exclusive, negative
\* indices count from the end, both clamped)
JSSlice(s, start, end) ==
    LET n  == Len(s)
        lo == IF start < 0 THEN Max(n + start, 0) ELSE Min(start, n)
        hi == IF end < 0 THEN Max(n + end, 0) ELSE Min(end, n)
    IN  SubSeq(s, lo + 1, hi)

RECURSIVE SumLen(_)
\* reduce((total, combo) => total + combo.length, 0)
SumLen(ss) == IF ss = <<>> THEN 0 ELSE Len(Head(ss)) + SumLen(Tail(ss))

RECURSIVE Concat(_)
Concat(ss) == IF ss = <<>> THEN <<>> ELSE Head(ss) \o Concat(Tail(ss))

----------------------------------------------------------------------------
\* Dimension data as DataPreprocessor.extractDimensions returns it

\* uniqueMembers.map(member => ({dimension, member})) of n unique members
MemberList(d, n) == [m \in 1..n |-> [dimension |-> d, member |-> m]]

\* DimensionData with nc column headers and Len(counts) row dimensions,
\* the d-th with counts[d] unique members
MakeDimensions(nc, counts) ==
    [columnDimensions   |-> [c \in 1..nc |-> c],
     memberCombinations |-> [d \in 1..Len(counts) |-> MemberList(d, counts[d])]]

\* member counts per row dimension: every dimension extractDimensions
\* creates has at least one member
CountSeqs == UNION {[1..k -> 1..MaxMembers] : k \in 0..MaxDims}

\* memberCombinations is empty exactly when dataStartCol = 0, and then
\* dataStartRow = 0 and columnHeaders is empty as well
DimensionInputs ==
    {MakeDimensions(nc, counts) :
        nc \in 0..MaxCols,
        counts \in CountSeqs} \
    {MakeDimensions(nc, <<>>) : nc \in 1..MaxCols}

DefaultMaxCellsPerChunk == 10000

\* the strategy the constructor sets
DefaultStrategy ==
    [maxCellsPerChunk |-> DefaultMaxCellsPerChunk, chunkByDimension |-> TRUE]

----------------------------------------------------------------------------
\* DataPreprocessor: chunk planning

\* variant: the "|| 1" fallbacks left out
estimateCellsNoFallback(dims) ==
    Len(dims.columnDimensions) * SumLen(dims.memberCombinations)

\* columnCount * rowCount, each "|| 1" when 0
estimateCellsFromDimensions(dims) ==
    LET columnCount == IF Len(dims.columnDimensions) = 0
                       THEN 1 ELSE Len(dims.columnDimensions)
        total       == SumLen(dims.memberCombinations)
        rowCount    == IF total = 0 THEN 1 ELSE total
    IN  columnCount * rowCount

\* gridDefinition.rows[0].members: one member-name list per row
\* dimension, or [[]] when there is no row dimension
RowMembers(dims) ==
    IF Len(dims.memberCombinations) > 0
    THEN [d \in 1..Len(dims.memberCombinations) |->
            [k \in 1..Len(dims.memberCombinations[d]) |->
                dims.memberCombinations[d][k].member]]
    ELSE << <<>> >>

createSingleChunk(dims, chunkIndex, totalChunks) ==
    [chunkIndex     |-> chunkIndex,
     totalChunks    |-> totalChunks,
     columns        |-> dims.columnDimensions,
     rows           |-> RowMembers(dims),
     estimatedCells |-> estimateCellsFromDimensions(dims)]

\* Math.ceil(totalCells / maxCellsPerChunk) for totalCells >= 1:
\* +Infinity for a zero divisor, ceil of a negative quotient otherwise
ChunkCount(totalCells, maxCells) ==
    IF maxCells > 0 THEN CeilDiv(totalCells, maxCells)
    ELSE IF maxCells = 0 THEN Infinity
    ELSE -(totalCells \div (-maxCells))

\* variant: Math.floor in place of Math.ceil
MembersPerChunkFloor(len0, target) ==
    IF target = Infinity THEN 0
    ELSE IF target > 0 THEN len0 \div target
    ELSE IF target < 0 THEN -CeilDiv(len0, -target)
    ELSE -Infinity

\* Math.ceil(len0 / targetChunkCount) for len0 >= 1: 0 for an infinite
\* divisor; a target of 0 is the -0 of ChunkCount, giving -Infinity
MembersPerChunk(len0, target) ==
    IF target = Infinity THEN 0
    ELSE IF target > 0 THEN CeilDiv(len0, target)
    ELSE IF target < 0 THEN -(len0 \div (-target))
    ELSE -Infinity

\* startIndex of iteration i
StartIndex(i, perChunk) == i * perChunk

\* endIndex of iteration i
EndIndex(i, perChunk, len0) == Min(StartIndex(i, perChunk) + perChunk, len0)

\* chunkDimensions of iteration i: every row dimension cut by the same
\* index range
SliceDimensions(dims, startIndex, endIndex) ==
    [dims EXCEPT !.memberCombinations =
        [d \in 1..Len(dims.memberCombinations) |->
            JSSlice(dims.memberCombinations[d], startIndex, endIndex)]]

\* updateChunkingStrategy({maxCellsPerChunk, chunkByDimension})
UpdateChunkingStrategy(maxCells, byDimension) ==
    /\ planPc = "idle"
    /\ chunkingStrategy' = [maxCellsPerChunk |-> maxCells,
                            chunkByDimension |-> byDimension]
    /\ UNCHANGED <<dimensions, chunks, planPc, targetChunkCount,
                   membersPerChunk, loopI>>
    /\ UNCHANGED nonPlanVars

\* createChunks up to the loop of createDimensionBasedChunks.
\* createSizeBasedChunks delegates to createDimensionBasedChunks, so both
\* values of chunkByDimension take the same path.
CreateChunks ==
    /\ planPc = "idle"
    /\ LET totalCells == estimateCellsFromDimensions(dimensions)
           maxCells   == chunkingStrategy.maxCellsPerChunk
           chunkCount == ChunkCount(totalCells, maxCells)
       IN  IF totalCells <= maxCells
           THEN /\ chunks' = <<createSingleChunk(dimensions, 0, 1)>>
                /\ planPc' = "done"
                /\ UNCHANGED <<targetChunkCount, membersPerChunk, loopI>>
           ELSE IF Len(dimensions.memberCombinations) > 0
           THEN /\ targetChunkCount' = chunkCount
                /\ membersPerChunk' =
                       MembersPerChunk(Len(dimensions.memberCombinations[1]),
                                       chunkCount)
                /\ loopI' = 0
                /\ planPc' = "loop"
                /\ UNCHANGED chunks
           ELSE /\ targetChunkCount' = chunkCount
                /\ chunks' = <<createSingleChunk(dimensions, 0, 1)>>
                /\ planPc' = "done"
                /\ UNCHANGED <<membersPerChunk, loopI>>
    /\ UNCHANGED <<dimensions, chunkingStrategy>>
    /\ UNCHANGED nonPlanVars

\* one iteration of "for (let i = 0; i < targetChunkCount; i++)"
DimensionLoopStep ==
    /\ planPc = "loop"
    /\ loopI < targetChunkCount
    /\ loopI < MaxLoopIter
    /\ LET len0       == Len(dimensions.memberCombinations[1])
           startIndex == StartIndex(loopI, membersPerChunk)
           endIndex   == EndIndex(loopI, membersPerChunk, len0)
       IN  IF startIndex < len0
           THEN chunks' = Append(chunks,
                    createSingleChunk(
                        SliceDimensions(dimensions, startIndex, endIndex),
                        loopI, targetChunkCount))
           ELSE UNCHANGED chunks
    /\ loopI' = loopI + 1
    /\ UNCHANGED <<dimensions, chunkingStrategy, planPc, targetChunkCount,
                   membersPerChunk>>
    /\ UNCHANGED nonPlanVars

\* the loop condition fails: createDimensionBasedChunks and createChunks
\* return
DimensionLoopExit ==
    /\ planPc = "loop"
    /\ ~(loopI < targetChunkCount)
    /\ planPc' = "done"
    /\ UNCHANGED <<dimensions, chunkingStrategy, chunks, targetChunkCount,
                   membersPerChunk, loopI>>
    /\ UNCHANGED nonPlanVars

----------------------------------------------------------------------------
\* taskpane: handleRefreshData, processChunk, handleCancelOperation

Ops == 1..MaxOps

\* currentOperation = null
NoOperation ==
    [isNull |-> TRUE, isActive |-> FALSE, operationId |-> 0,
     totalChunks |-> 0, completedChunks |-> 0, currentChunk |-> 0,
     canCancel |-> FALSE]

\* the OperationProgress object handleRefreshData creates
NewOperation(p, n) ==
    [isNull |-> FALSE, isActive |-> TRUE, operationId |-> p,
     totalChunks |-> n, completedChunks |-> 0, currentChunk |-> 0,
     canCancel |-> TRUE]

\* currentOperation?.isActive
IsActive(op) == ~op.isNull /\ op.isActive

\* no parseAndMapResponse call made
NoParseCall == [called |-> FALSE, responses |-> <<>>, operationId |-> 0]

\* ChunkResponse pushed on success / in the catch block
SuccessResponse(i) == [chunkIndex |-> i, status |-> "success"]

ErrorResponse(i) == [chunkIndex |-> i, status |-> "error"]

\* variant: the loop variable advanced twice
NextIndexSkip(i) == i + 2

\* i++ of the chunk loop
NextIndex(i) == i + 1

\* variant: Step 4 entered without looking at currentOperation
ShouldParseAlways(op) == TRUE

\* the condition guarding "Step 4: Parse and map responses"
ShouldParse(op) == IsActive(op)

\* the condition under which the chunk loop goes on to dispatch chunk i
ShouldDispatch(i, n, op) == i < n /\ IsActive(op)

\* variant: the operation object is left in place
LeaveOperation(op) == op

\* "Reset operation": currentOperation = null at the end of the Excel.run
\* callback
ResetOperation(op) == NoOperation

\* Click handlers and settled network / host calls are delivered as tasks,
\* which run only when no promise continuation is pending: preprocessData
\* awaits nothing but the already resolved createChunks promise.
NoPendingContinuation == \A q \in Ops : pc[q] # "preprocessing"

\* The handler of invocation p running from the top of loop iteration i
\* (local responses resp, currentOperation op, requests in flight flying) to
\* its next await or its end.
RunLoop(p, i, n, resp, op, flying) ==
    IF ShouldDispatch(i, n, op)
    THEN \* currentChunk = i + 1; await processChunk(chunks[i])
         /\ currentOperation' = [op EXCEPT !.currentChunk = i + 1]
         /\ opI' = [opI EXCEPT ![p] = i]
         /\ responses' = [responses EXCEPT ![p] = resp]
         /\ dispatched' = [dispatched EXCEPT ![p] = Append(@, i)]
         /\ inflight' = [inflight EXCEPT ![p] = flying \cup {i}]
         /\ pc' = [pc EXCEPT ![p] = "awaitChunk"]
         /\ UNCHANGED parseCall
    ELSE IF ShouldParse(op)
    THEN \* await responseParser.parseAndMapResponse(responses, ...)
         /\ currentOperation' = op
         /\ opI' = [opI EXCEPT ![p] = i]
         /\ responses' = [responses EXCEPT ![p] = resp]
         /\ parseCall' = [parseCall EXCEPT ![p] =
                [called |-> TRUE, responses |-> resp,
                 operationId |-> op.operationId]]
         /\ inflight' = [inflight EXCEPT ![p] = flying]
         /\ pc' = [pc EXCEPT ![p] = "mapping"]
         /\ UNCHANGED dispatched
    ELSE \* "Reset operation"
         /\ currentOperation' = ResetOperation(op)
         /\ opI' = [opI EXCEPT ![p] = i]
         /\ responses' = [responses EXCEPT ![p] = resp]
         /\ inflight' = [inflight EXCEPT ![p] = flying]
         /\ pc' = [pc EXCEPT ![p] = "done"]
         /\ UNCHANGED <<dispatched, parseCall>>

\* handleRefreshData up to "await context.sync()": the early returns
\* (not authenticated, no connection selected, operation in progress)
HandleRefreshData(p, ready) ==
    /\ NoPendingContinuation
    /\ pc[p] = "idle"
    /\ \A q \in Ops : q < p => pc[q] # "idle"
    /\ IF ready /\ ~IsActive(currentOperation)
       THEN pc' = [pc EXCEPT ![p] = "loading"]
       ELSE pc' = [pc EXCEPT ![p] = "rejected"]
    /\ UNCHANGED <<currentOperation, opChunks, opI, responses, inflight,
                   dispatched, cancelled, cancelledAfter, parseCall>>
    /\ UNCHANGED nonRefreshVars

\* context.sync() resolves; preprocessData is called and awaited
RangeLoaded(p) ==
    /\ NoPendingContinuation
    /\ pc[p] = "loading"
    /\ pc' = [pc EXCEPT ![p] = "preprocessing"]
    /\ UNCHANGED <<currentOperation, opChunks, opI, responses, inflight,
                   dispatched, cancelled, cancelledAfter, parseCall>>
    /\ UNCHANGED nonRefreshVars

\* context.sync() rejects: the outer catch runs
RangeLoadFailed(p) ==
    /\ NoPendingContinuation
    /\ pc[p] = "loading"
    /\ currentOperation' = NoOperation
    /\ pc' = [pc EXCEPT ![p] = "done"]
    /\ UNCHANGED <<opChunks, opI, responses, inflight, dispatched,
                   cancelled, cancelledAfter, parseCall>>
    /\ UNCHANGED nonRefreshVars

RECURSIVE SumTo(_, _)
\* f[1] + ... + f[k]
SumTo(f, k) == IF k = 0 THEN 0 ELSE f[k] + SumTo(f, k - 1)

\* preprocessData resolves with n chunks: currentOperation is set and the
\* chunk loop runs to its first await
PreprocessDone(p, n) ==
    /\ pc[p] = "preprocessing"
    /\ SumTo(opChunks, MaxOps) + n <= MaxChunks
    /\ opChunks' = [opChunks EXCEPT ![p] = n]
    /\ RunLoop(p, 0, n, <<>>, NewOperation(p, n), {})
    /\ UNCHANGED <<cancelled, cancelledAfter>>
    /\ UNCHANGED nonRefreshVars

\* preprocessData throws "Preprocessing failed: ...": the outer catch runs
PreprocessFailed(p) ==
    /\ pc[p] = "preprocessing"
    /\ currentOperation' = NoOperation
    /\ pc' = [pc EXCEPT ![p] = "done"]
    /\ UNCHANGED <<opChunks, opI, responses, inflight, dispatched,
                   cancelled, cancelledAfter, parseCall>>
    /\ UNCHANGED nonRefreshVars

\* await processChunk(chunk) settles. Resolved: the success response is
\* pushed, then currentOperation.completedChunks++ runs inside the same try,
\* so with currentOperation = null the TypeError reaches the catch, which
\* pushes an error response as well. Rejected (transport failure or
\* response.success false): the catch pushes an error response.
ChunkSettled(p, ok) ==
    /\ NoPendingContinuation
    /\ pc[p] = "awaitChunk"
    /\ LET i    == opI[p]
           resp == IF ok
                   THEN IF currentOperation.isNull
                        THEN responses[p] \o
                                <<SuccessResponse(i), ErrorResponse(i)>>
                        ELSE Append(responses[p], SuccessResponse(i))
                   ELSE Append(responses[p], ErrorResponse(i))
           op   == IF ok /\ ~currentOperation.isNull
                   THEN [currentOperation EXCEPT !.completedChunks = @ + 1]
                   ELSE currentOperation
       IN  RunLoop(p, NextIndex(i), opChunks[p], resp, op, inflight[p] \ {i})
    /\ UNCHANGED <<opChunks, cancelled, cancelledAfter>>
    /\ UNCHANGED nonRefreshVars

\* await parseAndMapResponse(...) resolves (it catches its own errors):
\* "Reset operation"
MappingDone(p) ==
    /\ NoPendingContinuation
    /\ pc[p] = "mapping"
    /\ currentOperation' = ResetOperation(currentOperation)
    /\ pc' = [pc EXCEPT ![p] = "done"]
    /\ UNCHANGED <<opChunks, opI, responses, inflight, dispatched,
                   cancelled, cancelledAfter, parseCall>>
    /\ UNCHANGED nonRefreshVars

\* handleCancelOperation; it does nothing unless currentOperation?.isActive
HandleCancelOperation ==
    /\ NoPendingContinuation
    /\ IsActive(currentOperation)
    /\ LET owner == currentOperation.operationId
       IN  /\ cancelled' = [cancelled EXCEPT ![owner] = TRUE]
           /\ cancelledAfter' = [cancelledAfter EXCEPT ![owner] =
                  IF pc[owner] = "awaitChunk"
                  THEN Len(responses[owner]) ELSE @]
    /\ currentOperation' = NoOperation
    /\ UNCHANGED <<pc, opChunks, opI, responses, inflight, dispatched,
                   parseCall>>
    /\ UNCHANGED nonRefreshVars

----------------------------------------------------------------------------
\* response-parser: validation and assembly of chunk responses

\* handleMissingChunks
Policies == {"error", "skip", "interpolate"}

\* mergeStrategy
MergeStrategies == {"append", "overlay", "smart"}

\* the options the ResponseParser constructor sets when given none
DefaultAssemblyOptions ==
    [validateIntegrity |-> TRUE, handleMissingChunks |-> "error",
     sortByChunkIndex |-> TRUE, mergeStrategy |-> "smart"]

\* the options a caller may pass to the constructor
AssemblyOptionsInputs ==
    [validateIntegrity : BOOLEAN, handleMissingChunks : Policies,
     sortByChunkIndex : BOOLEAN, mergeStrategy : MergeStrategies]

\* an entry of errors[] / warnings[]: the message template and the count it
\* prints
Message(kind, n) == [kind |-> kind, n |-> n]

\* responses.filter(r => r.status === status)
WithStatus(rs, status) == SelectSeq(rs, LAMBDA r : r.status = status)

\* variant: the last array position is taken for the greatest chunk index
LastArrayIndex(rs) == Len(rs) - 1

\* Math.max(...responses.map(r => r.chunkIndex)) of a non-empty array
MaxChunkIndex(rs) ==
    CHOOSE m \in {rs[k].chunkIndex : k \in 1..Len(rs)} :
        \A k \in 1..Len(rs) : rs[k].chunkIndex <= m

\* variant: a failed or missing chunk is never an error
TreatAsWarning(options) == FALSE

\* this.assemblyOptions.handleMissingChunks === 'error'
TreatAsError(options) == options.handleMissingChunks = "error"

\* validateResponses
validateResponses(rs, options) ==
    IF Len(rs) = 0
    THEN [isValid |-> FALSE, errors |-> <<Message("noResponses", 0)>>,
          warnings |-> <<>>]
    ELSE LET failedChunks   == Len(WithStatus(rs, "error"))
             expectedChunks == MaxChunkIndex(rs) + 1
             actualChunks   == Len(WithStatus(rs, "success"))
             asError        == TreatAsError(options)
             failedMsg  == IF failedChunks > 0
                           THEN <<Message("chunksFailed", failedChunks)>>
                           ELSE <<>>
             missingMsg == IF actualChunks < expectedChunks
                           THEN <<Message("missingChunks",
                                          expectedChunks - actualChunks)>>
                           ELSE <<>>
             errors     == IF asError THEN failedMsg \o missingMsg ELSE <<>>
             warnings   == IF asError THEN <<>> ELSE failedMsg \o missingMsg
         IN  [isValid |-> Len(errors) = 0, errors |-> errors,
              warnings |-> warnings]

RECURSIVE SortByChunkIndex(_)
\* successfulResponses.sort((a, b) => a.chunkIndex - b.chunkIndex): stable
SortByChunkIndex(rs) ==
    IF rs = <<>> THEN <<>>
    ELSE LET r      == rs[Len(rs)]
             sorted == SortByChunkIndex(SubSeq(rs, 1, Len(rs) - 1))
             k      == Cardinality({j \in 1..Len(sorted) :
                                      sorted[j].chunkIndex <= r.chunkIndex})
         IN  SubSeq(sorted, 1, k) \o <<r>> \o SubSeq(sorted, k + 1, Len(sorted))

RECURSIVE JoinMembers(_)
\* the texts of the members of a JSON array, comma separated
JoinMembers(ms) ==
    IF ms = <<>> THEN <<>>
    ELSE IF Len(ms) = 1 THEN <<"quote", ms[1], "quote">>
    ELSE <<"quote", ms[1], "quote", ",">> \o JoinMembers(Tail(ms))

\* JSON.stringify(row.members), as its sequence of tokens
JSONStringify(ms) == <<"[">> \o JoinMembers(ms) \o <<"]">>

\* allRows of mergeRowsSmart / the rows pushed under 'append'
AllRows(rs) == Concat([k \in 1..Len(rs) |-> rs[k].rows])

\* variant: the last row of equal members is looked up
FindLastIndexOfMembers(arr, row) ==
    LET hits == {j \in 1..Len(arr) :
                    /\ arr[j].hasMembers
                    /\ JSONStringify(arr[j].members) = JSONStringify(row.members)}
    IN  IF hits = {} THEN 0 ELSE CHOOSE j \in hits : \A h \in hits : j >= h

\* arr.findIndex(otherRow => otherRow.members &&
\*     JSON.stringify(otherRow.members) === JSON.stringify(row.members)),
\* 1-based; 0 stands for -1
FindIndexOfMembers(arr, row) ==
    LET hits == {j \in 1..Len(arr) :
                    /\ arr[j].hasMembers
                    /\ JSONStringify(arr[j].members) = JSONStringify(row.members)}
    IN  IF hits = {} THEN 0 ELSE CHOOSE j \in hits : \A h \in hits : j <= h

RECURSIVE FilterByIndex(_, _, _)
\* arr.filter((row, index) => index \in keep), from 1-based position k on
FilterByIndex(arr, keep, k) ==
    IF k > Len(arr) THEN <<>>
    ELSE (IF k \in keep THEN <<arr[k]>> ELSE <<>>) \o FilterByIndex(arr, keep, k + 1)

\* mergeRowsSmart
mergeRowsSmart(rs) ==
    LET allRows == AllRows(rs)
        keep    == {k \in 1..Len(allRows) :
                       \/ ~allRows[k].hasMembers
                       \/ FindIndexOfMembers(allRows, allRows[k]) = k}
    IN  FilterByIndex(allRows, keep, 1)

\* mergeRowsWithOverlay
mergeRowsWithOverlay(rs) == mergeRowsSmart(rs)

\* variant: an empty response is returned when nothing succeeded
EmptyData == [threw |-> FALSE, from |-> <<>>, rows |-> <<>>, columns |-> <<>>]

\* what assembleChunks yields when successfulResponses is empty: it throws
\* 'No successful responses to assemble' (from lists the chunk indices of
\* successfulResponses)
NoData == [threw |-> TRUE, from |-> <<>>, rows |-> <<>>, columns |-> <<>>]

\* assembleChunks
assembleChunks(rs, options) ==
    LET filtered == SelectSeq(rs, LAMBDA r : r.status = "success" /\ r.hasData)
        successfulResponses ==
            IF options.sortByChunkIndex THEN SortByChunkIndex(filtered)
            ELSE filtered
        from == [k \in 1..Len(successfulResponses) |->
                    successfulResponses[k].chunkIndex]
    IN  IF Len(successfulResponses) = 0 THEN NoData
        ELSE IF Len(successfulResponses) = 1
        THEN [threw |-> FALSE, from |-> from,
              rows |-> successfulResponses[1].rows,
              columns |-> successfulResponses[1].columns]
        ELSE [threw |-> FALSE, from |-> from,
              rows |-> CASE options.mergeStrategy = "append" ->
                                AllRows(successfulResponses)
                         [] options.mergeStrategy = "overlay" ->
                                mergeRowsWithOverlay(successfulResponses)
                         [] OTHER -> mergeRowsSmart(successfulResponses),
              columns |-> successfulResponses[1].columns]

RECURSIVE SumActualCells(_)
\* originalResponses.reduce((sum, r) => sum + (r.actualCells || 0), 0)
SumActualCells(rs) ==
    IF rs = <<>> THEN 0 ELSE Head(rs).actualCells + SumActualCells(Tail(rs))

RECURSIVE SumDataLen(_)
\* rows.reduce((sum, row) => sum + row.data.length, 0)
SumDataLen(rows) ==
    IF rows = <<>> THEN 0 ELSE Len(Head(rows).data) + SumDataLen(Tail(rows))

\* variant: the assembled data is not looked at
IntegrityUnchecked(data, originalResponses) == <<>>

\* validateDataIntegrity: the warnings it returns
validateDataIntegrity(data, originalResponses) ==
    LET expectedCells == SumActualCells(originalResponses)
        actualCells   == SumDataLen(data.rows)
        columnCount   == IF Len(data.columns) # 0 THEN Len(data.columns)
                         ELSE IF Len(data.rows) > 0 THEN Len(data.rows[1].data)
                         ELSE 0
        inconsistentRows ==
            Len(SelectSeq(data.rows, LAMBDA row : Len(row.data) # columnCount))
    IN  (IF expectedCells # actualCells
         THEN <<Message("cellCountMismatch", actualCells)>> ELSE <<>>)
        \o (IF inconsistentRows > 0
            THEN <<Message("inconsistentRows", inconsistentRows)>> ELSE <<>>)

----------------------------------------------------------------------------
\* response-parser: cell mappings, range groups and the Excel update

\* A response value is a string; [text |-> "numeric"] is the decimal text
\* of a number, "other" any other non-empty text, "empty" the empty
\* string; id tells the values apart.
\* parseValue
parseValue(v) ==
    IF v.text = "empty" THEN [type |-> "string", id |-> <<>>]
    ELSE IF v.text = "numeric" THEN [type |-> "number", id |-> v.id]
    ELSE [type |-> "string", id |-> v.id]

\* targetRow of the mapping of a value of assembled row rowIndex
TargetRow(structure, rowIndex) == structure.dataStartRow + rowIndex

\* variant: every value of a row is given the first data column
TargetColFirst(structure, colIndex) == structure.dataStartCol

\* targetCol of the mapping of the value at colIndex of its row
TargetCol(structure, colIndex) == structure.dataStartCol + colIndex

\* the mappings mapToExcelCells pushes for one row (dataType, validation
\* and formatting are left out)
RowMappings(row, rowIndex, structure) ==
    [c \in 1..Len(row.data) |->
        [sourceRow |-> rowIndex, sourceCol |-> c - 1,
         targetRow |-> TargetRow(structure, rowIndex),
         targetCol |-> TargetCol(structure, c - 1),
         value     |-> parseValue(row.data[c])]]

\* mapToExcelCells
mapToExcelCells(data, structure) ==
    Concat([r \in 1..Len(data.rows) |->
               RowMappings(data.rows[r], r - 1, structure)])

\* the comparator of groupMappingsByRange's sort is <= 0 for (a, b)
NotAfter(a, b) ==
    IF a.targetRow # b.targetRow THEN a.targetRow < b.targetRow
    ELSE a.targetCol <= b.targetCol

RECURSIVE SortMappings(_)
\* [...mappings].sort(by targetRow, then targetCol): stable
SortMappings(ms) ==
    IF ms = <<>> THEN <<>>
    ELSE LET m      == ms[Len(ms)]
             sorted == SortMappings(SubSeq(ms, 1, Len(ms) - 1))
             k      == Cardinality({j \in 1..Len(sorted) : NotAfter(sorted[j], m)})
         IN  SubSeq(sorted, 1, k) \o <<m>> \o SubSeq(sorted, k + 1, Len(sorted))

\* variant: any mapping of the group's row extends the group
canAddToGroupSameRow(group, mapping) == mapping.targetRow = group.startRow

\* canAddToGroup
canAddToGroup(group, mapping) ==
    /\ mapping.targetRow = group.startRow
    /\ mapping.targetCol = group.startCol + group.numCols

\* addMappingToGroup
addMappingToGroup(group, mapping) ==
    IF mapping.targetRow = group.startRow
    THEN [group EXCEPT !.values[1] = Append(@, mapping.value),
                       !.numCols = @ + 1]
    ELSE group

\* the group started for a mapping (formatting is left out)
NewGroup(mapping) ==
    [startRow |-> mapping.targetRow, startCol |-> mapping.targetCol,
     numRows |-> 1, numCols |-> 1, values |-> << <<mapping.value>> >>]

RECURSIVE GroupScan(_)
\* the loop of groupMappingsByRange over sortedMappings; the last group of
\* the result is currentGroup
GroupScan(sorted) ==
    IF sorted = <<>> THEN <<>>
    ELSE LET groups  == GroupScan(SubSeq(sorted, 1, Len(sorted) - 1))
             mapping == sorted[Len(sorted)]
         IN  IF groups = <<>> \/ ~canAddToGroup(groups[Len(groups)], mapping)
             THEN Append(groups, NewGroup(mapping))
             ELSE [groups EXCEPT ![Len(groups)] = addMappingToGroup(@, mapping)]

\* groupMappingsByRange
groupMappingsByRange(mappings) ==
    IF Len(mappings) = 0 THEN <<>> ELSE GroupScan(SortMappings(mappings))

\* a MappingResult
MappingResult(cells, ranges, ok, errors, warnings) ==
    [cellsUpdated |-> cells, rangesUpdated |-> ranges, success |-> ok,
     errors |-> errors, warnings |-> warnings]

\* applyMappingsToExcel. failedGroup is the 1-based index of the range group
\* whose update throws inside the loop (0: none); syncOk tells whether
\* context.sync() resolves. written lists the groups assigned to the sheet.
applyMappingsToExcel(mappings, failedGroup, syncOk) ==
    LET groups == groupMappingsByRange(mappings)
        errors == IF failedGroup \in 1..Len(groups)
                  THEN <<Message("rangeUpdateFailed", failedGroup)>>
                  ELSE <<>>
    IN  IF syncOk
        THEN [result  |-> MappingResult(Len(mappings), Len(groups),
                                        Len(errors) = 0, errors, <<>>),
              groups  |-> groups,
              written |-> FilterByIndex(groups,
                              (1..Len(groups)) \ {failedGroup}, 1)]
        ELSE [result  |-> MappingResult(0, 0, FALSE,
                              errors \o <<Message("excelUpdateFailed", 0)>>,
                              <<>>),
              groups  |-> groups,
              written |-> <<>>]

\* what parseAndMapResponse returns when it catches an error raised before
\* the Excel update
FailedBeforeUpdate(errors, warnings) ==
    [result  |-> MappingResult(0, 0, FALSE, errors, warnings),
     data    |-> NoData, mappings |-> <<>>, groups |-> <<>>,
     written |-> <<>>]

\* parseAndMapResponse
parseAndMapResponse(rs, structure, options, failedGroup, syncOk) ==
    LET validationResult == validateResponses(rs, options)
        assembled        == assembleChunks(rs, options)
        integrity ==
            IF options.validateIntegrity
            THEN validateDataIntegrity(assembled, rs) ELSE <<>>
        warnings     == validationResult.warnings \o integrity
        mappings     == mapToExcelCells(assembled, structure)
        update == applyMappingsToExcel(mappings, failedGroup, syncOk)
    IN  IF ~validationResult.isValid /\ Len(validationResult.errors) > 0
        THEN FailedBeforeUpdate(
                 validationResult.errors
                     \o <<Message("validationFailed",
                                  Len(validationResult.errors))>>, <<>>)
        ELSE IF assembled.threw
        THEN FailedBeforeUpdate(<<Message("noSuccessfulResponses", 0)>>,
                                validationResult.warnings)
        ELSE [result  |-> [update.result EXCEPT
                              !.warnings = warnings \o update.result.warnings],
              data    |-> assembled, mappings |-> mappings,
              groups  |-> update.groups, written |-> update.written]

----------------------------------------------------------------------------
\* Chunk responses as handleRefreshData records them

\* a response row before its values are filled in: its member list (if
\* any) and its number of values
RowKinds ==
    { [hasMembers |-> FALSE, members |-> <<>>, width |-> 2],
      [hasMembers |-> TRUE, members |-> <<"East", "Q1">>, width |-> 2],
      [hasMembers |-> TRUE, members |-> <<"Q1", "East">>, width |-> 1] }

\* the rows of one response: at most n rows
KindSeqs(n) == UNION {[1..k -> RowKinds] : k \in 0..n}

\* the k-th row (1-based) of the response to chunk ci; every value is the
\* text of a number of its own
MakeRow(ci, k, kind) ==
    [data |-> [c \in 1..kind.width |-> [text |-> "numeric", id |-> <<ci, k, c>>]],
     hasMembers |-> kind.hasMembers, members |-> kind.members]

\* the ChunkResponse pushed for chunk ci: on success data.rows as returned
\* by processChunk and actualCells = the number of values in them; in the
\* catch block no data and no actualCells. data.columns is not sent.
MakeResponse(ci, status, kinds) ==
    LET rows == [k \in 1..Len(kinds) |-> MakeRow(ci, k, kinds[k])]
    IN  [chunkIndex |-> ci, status |-> status,
         hasData |-> status = "success",
         rows |-> rows, columns |-> <<>>,
         actualCells |-> SumDataLen(rows)]

\* what a chunk request came to: an error, or a success with its rows
Outcome(status, kinds) == [status |-> status, kinds |-> kinds]

RECURSIVE OutcomeSeqs(_, _)
\* the outcomes of n chunk requests whose responses hold at most budget
\* rows in all
OutcomeSeqs(n, budget) ==
    IF n = 0 THEN {<<>>}
    ELSE {<<Outcome("error", <<>>)>> \o rest : rest \in OutcomeSeqs(n - 1, budget)}
         \cup UNION { {<<Outcome("success", kinds)>> \o rest :
                          rest \in OutcomeSeqs(n - 1, budget - Len(kinds))} :
                      kinds \in KindSeqs(budget) }

\* arrays of n distinct chunk indices below MaxResponses, in any order
IndexSeqs(n) ==
    {idx \in [1..n -> 0..(MaxResponses - 1)] :
        \A i, j \in 1..n : i # j => idx[i] # idx[j]}

\* the same, ascending only
AscendingIndexSeqs(n) ==
    {idx \in IndexSeqs(n) : \A i \in 1..(n - 1) : idx[i] < idx[i + 1]}

\* the outcomes of n requests, for each n
Outcomes == [n \in 0..MaxResponses |-> OutcomeSeqs(n, MaxRows)]

\* the responses array for chunk indices idx with the given outcomes
MakeResponses(idx, outcomes) ==
    [k \in 1..Len(idx) |->
        MakeResponse(idx[k], outcomes[k].status, outcomes[k].kinds)]

\* the response arrays handed to parseAndMapResponse: success and error
\* responses in the order of their chunks, some chunks possibly absent
ResponseInputs(rs) ==
    \E n \in 0..MaxResponses :
        \E idx \in AscendingIndexSeqs(n), outcomes \in Outcomes[n] :
            rs = MakeResponses(idx, outcomes)

\* the response arrays handed to assembleChunks: success and error
\* responses in any array order, some chunks possibly absent
AssembleInputs(rs) ==
    \E n \in 0..MaxResponses :
        \E idx \in IndexSeqs(n), outcomes \in Outcomes[n] :
            rs = MakeResponses(idx, outcomes)

\* a range with one header row and one header column
HeaderedStructure == [dataStartRow |-> 1, dataStartCol |-> 1]

\* no MappingResult returned yet
NoResult == MappingResult(0, 0, FALSE, <<>>, <<>>)

\* parseAndMapResponse(responses, structure, range) called once. The Excel
\* update goes through, or the update of the first range group throws
\* (failedGroup = 1), or context.sync() rejects (syncOk = FALSE).
ParseAndMapResponse(failedGroup, syncOk) ==
    /\ parsePc = "idle"
    /\ syncOk \/ failedGroup = 0
    /\ \E out \in {parseAndMapResponse(chunkResponses, originalStructure,
                                       assemblyOptions, failedGroup, syncOk)} :
          /\ failedGroup <= Len(out.groups)
          /\ mappingResult' = out.result
          /\ completeData' = out.data
          /\ cellMappings' = out.mappings
          /\ rangeGroups' = out.groups
          /\ written' = out.written
    /\ parsePc' = "returned"
    /\ UNCHANGED <<chunkResponses, assemblyOptions, originalStructure>>
    /\ UNCHANGED nonParserVars

\* assembleChunks(responses) called on its own
AssembleChunks ==
    /\ parsePc = "idle"
    /\ completeData' = assembleChunks(chunkResponses, assemblyOptions)
    /\ parsePc' = "assembled"
    /\ UNCHANGED <<chunkResponses, assemblyOptions, originalStructure,
                   cellMappings, rangeGroups, written, mappingResult>>
    /\ UNCHANGED nonParserVars

\* the assembled responses handed to mapToExcelCells: rows of any lengths
AssembledInputs(data) ==
    \E n \in 0..MaxMapRows :
        \E widths \in [1..n -> 0..MaxWidth] :
            data = [threw |-> FALSE, from |-> <<0>>, columns |-> <<>>,
                    rows |-> [r \in 1..n |->
                                 [data |-> [c \in 1..widths[r] |->
                                               [text |-> "numeric",
                                                id |-> <<0, r, c>>]],
                                  hasMembers |-> FALSE, members |-> <<>>]]]

\* the structures handed to mapToExcelCells
StructureInputs ==
    [dataStartRow : 0..MaxStart, dataStartCol : 0..MaxStart]

\* mapToExcelCells(data, originalStructure) called on its own
MapToExcelCells ==
    /\ parsePc = "idle"
    /\ cellMappings' = mapToExcelCells(completeData, originalStructure)
    /\ parsePc' = "mapped"
    /\ UNCHANGED <<chunkResponses, assemblyOptions, originalStructure,
                   completeData, rangeGroups, written, mappingResult>>
    /\ UNCHANGED nonParserVars

\* the mapping of a value of its own to the target cell (row, col)
MappingAt(row, col) ==
    [sourceRow |-> row, sourceCol |-> col, targetRow |-> row,
     targetCol |-> col, value |-> [type |-> "number", id |-> <<row, col>>]]

\* the target cells of the bounds, in row-major order
TargetCells ==
    [i \in 1..((MaxTargetRow + 1) * (MaxTargetCol + 1)) |->
        [row |-> (i - 1) \div (MaxTargetCol + 1),
         col |-> (i - 1) % (MaxTargetCol + 1)]]

\* the mappings handed to groupMappingsByRange, as a set: at most
\* MaxMappings mappings with distinct target cells, listed in row-major
\* order
MappingInputs(ms) ==
    \E picked \in SUBSET (1..Len(TargetCells)) :
        /\ Cardinality(picked) <= MaxMappings
        /\ ms = LET cells == FilterByIndex(TargetCells, picked, 1)
                IN  [k \in 1..Len(cells) |-> MappingAt(cells[k].row, cells[k].col)]

\* the orders in which an array of n elements can be given
Orders ==
    [n \in 0..MaxMappings |->
        {order \in [1..n -> 1..n] :
            \A i, j \in 1..n : i # j => order[i] # order[j]}]

\* groupMappingsByRange(mappings) called on its own, the mappings being
\* given in the array order `order`
GroupMappingsByRange(order) ==
    /\ parsePc = "idle"
    /\ rangeGroups' = groupMappingsByRange(
                          [k \in 1..Len(cellMappings) |-> cellMappings[order[k]]])
    /\ parsePc' = IF \A k \in 1..Len(cellMappings) : order[k] = k
                  THEN "grouped" ELSE "groupedUnsorted"
    /\ UNCHANGED <<chunkResponses, assemblyOptions, originalStructure,
                   completeData, cellMappings, written, mappingResult>>
    /\ UNCHANGED nonParserVars

----------------------------------------------------------------------------
\* data-processor: validateRange, cleanEmptyRows, identifyStructure

\* the text typed into the cell at row r, column c of the selection (both
\* 0-based); every non-blank cell holds a text of its own
CellText(r, c) == <<r, c>>

\* A cell value is a string: text is what is left after trim() (<<>> when
\* nothing is), padded tells whether white space surrounds it. The empty
\* string:
EmptyCell == [text |-> <<>>, padded |-> FALSE]

\* cell.toString().trim()
Trim(cell) == [cell EXCEPT !.padded = FALSE]

\* the selections drawn: rows x cols cells, each blank or holding a text;
\* padded tells whether every cell carries surrounding white space (a
\* blank cell is then white space only)
MakeRange(rows, cols, filled, padded) ==
    [r \in 1..rows |->
        [c \in 1..cols |->
            [text |-> IF filled[r][c] THEN CellText(r - 1, c - 1) ELSE <<>>,
             padded |-> padded]]]

RangeInputs(g) ==
    \/ g = <<>>
    \/ \E rows \in 1..MaxGridRows, cols \in 1..MaxGridCols, padded \in BOOLEAN :
          /\ rows * cols <= MaxGridCells
          /\ \E filled \in [1..rows -> [1..cols -> BOOLEAN]] :
                g = MakeRange(rows, cols, filled, padded)

\* validateRange: isValid (the warnings are left out)
validateRange(g) ==
    IF Len(g) = 0 THEN FALSE
    ELSE ~(Len(g) < 2) /\ ~(Len(g[1]) < 2)

\* row.some(cell => cell.toString().trim() !== "")
HasContent(row) == \E c \in 1..Len(row) : Trim(row[c]) # EmptyCell

\* cleanEmptyRows
cleanEmptyRows(g) ==
    LET kept == SelectSeq(g, HasContent)
    IN  [r \in 1..Len(kept) |-> [c \in 1..Len(kept[r]) |-> Trim(kept[r][c])]]

\* cell !== ""
NonEmpty(cell) == cell # EmptyCell

\* row.slice(start).filter(cell => cell !== "")
NonEmptyFrom(row, start) == SelectSeq(JSSlice(row, start, Len(row)), NonEmpty)

\* range[0].findIndex(cell => cell !== ""), -1 when there is none
FirstHeaderCol(g) ==
    LET hits == {c \in 1..Len(g[1]) : g[1][c] # EmptyCell}
    IN  IF hits = {} THEN -1 ELSE (CHOOSE c \in hits : \A h \in hits : c <= h) - 1

\* variant: the first row with any content is taken
FirstRowWithContent(g) ==
    LET hits == {r \in 1..Len(g) : \E c \in 1..Len(g[r]) : g[r][c] # EmptyCell}
    IN  IF hits = {} THEN -1 ELSE (CHOOSE r \in hits : \A h \in hits : r <= h) - 1

\* range.findIndex(row => row[0] !== ""), -1 when there is none
FirstDataRow(g) ==
    LET hits == {r \in 1..Len(g) : g[r][1] # EmptyCell}
    IN  IF hits = {} THEN -1 ELSE (CHOOSE r \in hits : \A h \in hits : r <= h) - 1

\* a RangeStructure; error names the Error identifyStructure threw ("none":
\* it returned)
RangeStructure(error, isEmpty, pov, cols, rows, startRow, startCol, nRows, nCols) ==
    [error |-> error, isEmpty |-> isEmpty, povMembers |-> pov,
     columnHeaders |-> cols, rowHeaders |-> rows,
     dataStartRow |-> startRow, dataStartCol |-> startCol,
     totalRows |-> nRows, totalCols |-> nCols]

\* variant: every row above the first data row is a POV row
PovRowsToData(g, firstDataRow) == JSSlice(g, 0, firstDataRow)

\* range.slice(0, Math.max(0, firstDataRow - 1))
PovRows(g, firstDataRow) == JSSlice(g, 0, Max(0, firstDataRow - 1))

\* variant: the top row serves as header row when no row lies above the
\* first data row
ColumnHeadersFromTop(g, firstDataRow, firstHeaderCol) ==
    NonEmptyFrom(g[Max(firstDataRow, 1)], firstHeaderCol)

\* firstDataRow > 0 ? range[firstDataRow - 1].slice(firstHeaderCol)
\*                       .filter(cell => cell !== "") : []
ColumnHeaders(g, firstDataRow, firstHeaderCol) ==
    IF firstDataRow > 0
    THEN NonEmptyFrom(g[firstDataRow], firstHeaderCol)
    ELSE <<>>

\* the row indices (0-based) at which identifyStructure reads a non-empty
\* range when both findIndex calls succeed: range[0], the rows findIndex
\* visits, the rows of slice(0, max(0, firstDataRow - 1)), the row
\* firstDataRow - 1 when firstDataRow > 0, and the rows of
\* slice(firstDataRow)
RowsRead(g) ==
    LET firstDataRow == FirstDataRow(g)
    IN  {0} \cup (0..firstDataRow)
            \cup (0..(Max(0, firstDataRow - 1) - 1))
            \cup (IF firstDataRow > 0 THEN {firstDataRow - 1} ELSE {})
            \cup (firstDataRow..(Len(g) - 1))

\* identifyStructure
identifyStructure(g) ==
    IF Len(g) = 0
    THEN RangeStructure("none", TRUE, <<>>, <<>>, <<>>, 0, 0, 0, 0)
    ELSE IF FirstHeaderCol(g) = -1
    THEN RangeStructure("Could not find header start", FALSE,
                        <<>>, <<>>, <<>>, 0, 0, 0, 0)
    ELSE IF FirstDataRow(g) = -1
    THEN RangeStructure("Could not find data row start", FALSE,
                        <<>>, <<>>, <<>>, 0, 0, 0, 0)
    ELSE LET firstHeaderCol == FirstHeaderCol(g)
             firstDataRow   == FirstDataRow(g)
             povRows    == PovRows(g, firstDataRow)
             povMembers ==
                 SelectSeq([r \in 1..Len(povRows) |->
                               NonEmptyFrom(povRows[r], firstHeaderCol)],
                           LAMBDA members : Len(members) > 0)
             columnHeaders == ColumnHeaders(g, firstDataRow, firstHeaderCol)
             dataRows   == JSSlice(g, firstDataRow, Len(g))
             rowHeaders == SelectSeq([r \in 1..Len(dataRows) |-> dataRows[r][1]],
                                     NonEmpty)
         IN  RangeStructure("none", FALSE, povMembers, columnHeaders,
                            rowHeaders, firstDataRow, firstHeaderCol,
                            Len(g), Len(g[1]))

\* variant: every member is kept
KeepAll(members) == members

RECURSIVE Unique(_)
\* [...new Set(members)]: the members in order of first appearance
Unique(members) ==
    IF members = <<>> THEN <<>>
    ELSE LET rest == Unique(SubSeq(members, 1, Len(members) - 1))
             last == members[Len(members)]
         IN  IF \E k \in 1..Len(rest) : rest[k] = last
             THEN rest ELSE Append(rest, last)

RECURSIVE MaxLen(_)
\* Math.max(...rows.map(row => row.length)) of a non-empty array
MaxLen(rows) ==
    IF Len(rows) = 1 THEN Len(rows[1])
    ELSE Max(Len(Head(rows)), MaxLen(Tail(rows)))

\* `RowDim_${dimIndex + 1}`, written as the number dimIndex + 1
RowDimName(dimIndex) == dimIndex + 1

\* extractDimensions
extractDimensions(g, structure) ==
    LET sliced   == JSSlice(g, structure.dataStartRow, Len(g))
        dataRows ==
            SelectSeq([r \in 1..Len(sliced) |->
                          SelectSeq(JSSlice(sliced[r], 0, structure.dataStartCol),
                                    NonEmpty)],
                      LAMBDA row : Len(row) > 0)
        maxDimensions == IF Len(dataRows) > 0 THEN MaxLen(dataRows) ELSE 0
        \* dataRows.map(row => row[dimIndex] || "").filter(member => member !== "")
        members(dimIndex) ==
            LET having == SelectSeq(dataRows, LAMBDA row : Len(row) > dimIndex)
            IN  [k \in 1..Len(having) |-> having[k][dimIndex + 1]]
    IN  [povDimensions      |-> structure.povMembers,
         columnDimensions   |-> structure.columnHeaders,
         rowDimensions      |-> [d \in 1..maxDimensions |-> RowDimName(d - 1)],
         memberCombinations |->
             [d \in 1..maxDimensions |->
                 LET uniqueMembers == Unique(members(d - 1))
                 IN  [k \in 1..Len(uniqueMembers) |->
                         [dimension |-> RowDimName(d - 1),
                          member    |-> uniqueMembers[k]]]]]

\* the texts a row-header cell is drawn from; <<>> is the empty string
HeaderTexts == {<<>>, <<"A">>, <<"B">>}

\* a selection of rows x cols cells with data from (startRow, startCol) on:
\* the row-header cells (rows from startRow, columns before startCol) hold
\* the texts header gives them, every other cell a text of its own
MakeHeaderedRange(rows, cols, startRow, startCol, header) ==
    [r \in 1..rows |->
        [c \in 1..cols |->
            [text |-> IF r > startRow /\ c <= startCol
                      THEN header[r - startRow][c]
                      ELSE CellText(r - 1, c - 1),
             padded |-> FALSE]]]

\* the selections and structures handed to extractDimensions
ExtractInputs(g, structure) ==
    \E rows \in 1..MaxGridRows, cols \in 1..MaxGridCols :
        \E startRow \in 0..(rows - 1), startCol \in 0..cols :
            /\ rows * cols <= MaxGridCells
            /\ (rows - startRow) * startCol <= MaxHeaderCells
            /\ \E header \in [1..(rows - startRow) -> [1..startCol -> HeaderTexts]] :
                  /\ g = MakeHeaderedRange(rows, cols, startRow, startCol, header)
                  /\ structure = RangeStructure("none", FALSE, <<>>, <<>>, <<>>,
                                                startRow, startCol, rows, cols)

\* extractDimensions(range, structure) called on its own
ExtractDimensions ==
    /\ gridPc = "idle"
    /\ dimensions' = extractDimensions(range, originalStructure)
    /\ gridPc' = "extracted"
    /\ UNCHANGED <<chunkingStrategy, chunks, planPc, targetChunkCount,
                   membersPerChunk, loopI>>
    /\ UNCHANGED <<range, cleanedRange>>
    /\ UNCHANGED <<refreshVars, parserVars>>
    /\ UNCHANGED authVars

\* no structure identified yet
NoStructure == RangeStructure("none", TRUE, <<>>, <<>>, <<>>, 0, 0, 0, 0)

\* identifyStructure(range) called on its own
IdentifyStructure ==
    /\ gridPc = "idle"
    /\ originalStructure' = identifyStructure(range)
    /\ gridPc' = "structure"
    /\ UNCHANGED <<range, cleanedRange>>
    /\ UNCHANGED <<chunkResponses, assemblyOptions, parsePc, completeData,
                   cellMappings, rangeGroups, written, mappingResult>>
    /\ UNCHANGED <<planVars, refreshVars>>
    /\ UNCHANGED authVars

\* variant: only an empty structure makes preprocessData throw
OnlyEmptyFails(structure) == structure.isEmpty

\* Step 3 of preprocessData throws: identifyStructure threw, or it
\* returned isEmpty
StructureFails(structure) == structure.error # "none" \/ structure.isEmpty

\* Steps 1 to 3 of preprocessData(range): validateRange, cleanEmptyRows,
\* identifyStructure; "failed" stands for the Error it throws
CleanAndIdentify ==
    /\ gridPc = "idle"
    /\ IF ~validateRange(range)
       THEN /\ gridPc' = "failed"
            /\ UNCHANGED <<cleanedRange, originalStructure>>
       ELSE \E structure \in {identifyStructure(cleanEmptyRows(range))} :
               /\ cleanedRange' = cleanEmptyRows(range)
               /\ IF StructureFails(structure)
                  THEN gridPc' = "failed" /\ UNCHANGED originalStructure
                  ELSE gridPc' = "preprocessed" /\ originalStructure' = structure
    /\ UNCHANGED range
    /\ UNCHANGED <<chunkResponses, assemblyOptions, parsePc, completeData,
                   cellMappings, rangeGroups, written, mappingResult>>
    /\ UNCHANGED <<planVars, refreshVars>>
    /\ UNCHANGED authVars

\* createChunks as a function, for maxCellsPerChunk >= 1 (where its loop
\* ends): the chunk of every iteration whose startIndex lies within the
\* first row dimension
PlannedChunks(dims, strategy) ==
    LET totalCells == estimateCellsFromDimensions(dims)
        target     == ChunkCount(totalCells, strategy.maxCellsPerChunk)
    IN  IF totalCells <= strategy.maxCellsPerChunk
           \/ Len(dims.memberCombinations) = 0
        THEN <<createSingleChunk(dims, 0, 1)>>
        ELSE LET len0     == Len(dims.memberCombinations[1])
                 perChunk == MembersPerChunk(len0, target)
                 made     == Cardinality({i \in 0..(target - 1) :
                                             StartIndex(i, perChunk) < len0})
             IN  [k \in 1..made |->
                    createSingleChunk(
                        SliceDimensions(dims, StartIndex(k - 1, perChunk),
                                        EndIndex(k - 1, perChunk, len0)),
                        k - 1, target)]

\* the data processChunk returns for a planned chunk: one row for each
\* member of the first row dimension the chunk asks for, tagged with that
\* member and holding one value for each column of the chunk
ChunkRows(chunk) ==
    [k \in 1..Len(chunk.rows[1]) |->
        [data |-> [c \in 1..Len(chunk.columns) |->
                      [text |-> "numeric", id |-> <<chunk.chunkIndex, k, c>>]],
         hasMembers |-> TRUE, members |-> <<chunk.rows[1][k]>>]]

\* the responses array handleRefreshData builds for the planned chunks when
\* the requests of the chunks in failed are rejected and the others
\* resolve
PlanResponses(plan, failed) ==
    [i \in 1..Len(plan) |->
        IF (i - 1) \in failed
        THEN [chunkIndex |-> i - 1, status |-> "error", hasData |-> FALSE,
              rows |-> <<>>, columns |-> <<>>, actualCells |-> 0]
        ELSE [chunkIndex |-> i - 1, status |-> "success", hasData |-> TRUE,
              rows |-> ChunkRows(plan[i]), columns |-> <<>>,
              actualCells |-> SumDataLen(ChunkRows(plan[i]))]]

\* the plans whose outcome is followed: createChunks applied to dimension
\* data with row dimensions and column headers under a maxCellsPerChunk
\* of at least 1
PlanInputs(dims, strategy, plan) ==
    /\ dims \in {d \in DimensionInputs :
                    /\ Len(d.columnDimensions) >= 1
                    /\ Len(d.memberCombinations) >= 1}
    /\ \E maxCells \in 1..MaxCellsSetting :
          strategy = [maxCellsPerChunk |-> maxCells, chunkByDimension |-> TRUE]
    /\ plan = PlannedChunks(dims, strategy)

\* Steps 3 and 4 of handleRefreshData for the planned chunks, no cancel
\* coming in between: at most one chunk request (failed) is rejected, and
\* the responses are handed to parseAndMapResponse, whose Excel update
\* goes through
RefreshPlan(failed) ==
    /\ parsePc = "idle"
    /\ \E rs \in {PlanResponses(chunks, failed)} :
       \E out \in {parseAndMapResponse(rs, originalStructure, assemblyOptions,
                                       0, TRUE)} :
          /\ chunkResponses' = rs
          /\ mappingResult' = out.result
          /\ completeData' = out.data
          /\ cellMappings' = out.mappings
          /\ rangeGroups' = out.groups
          /\ written' = out.written
    /\ parsePc' = "returned"
    /\ UNCHANGED <<assemblyOptions, originalStructure>>
    /\ UNCHANGED nonParserVars

\* await dataProcessor.preprocessData(range) settles for the loaded
\* selection. Rejected (validateRange, identifyStructure or the isEmpty
\* test throws): the outer catch of handleRefreshData runs. Resolved:
\* currentOperation is set and the chunk loop runs to its first await.
PreprocessSelection(p) ==
    /\ pc[p] = "preprocessing"
    /\ IF ~validateRange(range)
          \/ StructureFails(identifyStructure(cleanEmptyRows(range)))
       THEN /\ gridPc' = "failed"
            /\ currentOperation' = NoOperation
            /\ pc' = [pc EXCEPT ![p] = "done"]
            /\ UNCHANGED <<opChunks, opI, responses, inflight, dispatched,
                           parseCall>>
            /\ UNCHANGED <<cleanedRange, originalStructure, dimensions, chunks>>
       ELSE \E cleaned \in {cleanEmptyRows(range)} :
            \E structure \in {identifyStructure(cleaned)} :
            \E dims \in {extractDimensions(cleaned, structure)} :
            \E plan \in {PlannedChunks(dims, chunkingStrategy)} :
               /\ gridPc' = "preprocessed"
               /\ cleanedRange' = cleaned
               /\ originalStructure' = structure
               /\ dimensions' = dims
               /\ chunks' = plan
               /\ opChunks' = [opChunks EXCEPT ![p] = Len(plan)]
               /\ RunLoop(p, 0, Len(plan), <<>>, NewOperation(p, Len(plan)), {})
    /\ UNCHANGED <<cancelled, cancelledAfter>>
    /\ UNCHANGED <<chunkingStrategy, planPc, targetChunkCount, membersPerChunk,
                   loopI>>
    /\ UNCHANGED <<chunkResponses, assemblyOptions, parsePc, completeData,
                   cellMappings, rangeGroups, written, mappingResult>>
    /\ UNCHANGED range
    /\ UNCHANGED authVars

\* the assembled response to the query of the preprocessed selection: one
\* row for each row of the cleaned range from dataStartRow on, with one
\* value for each column header
GridResponse(cleaned, structure) ==
    [threw |-> FALSE, from |-> <<0>>, columns |-> <<>>,
     rows |-> [r \in 1..(Len(cleaned) - structure.dataStartRow) |->
                  [data |-> [c \in 1..Len(structure.columnHeaders) |->
                                [text |-> "numeric", id |-> <<0, r, c>>]],
                   hasMembers |-> FALSE, members |-> <<>>]]]

\* Step 4 of parseAndMapResponse(responses, preprocessed.structure,
\* selectedRange) for that response
MapGridResponse ==
    /\ gridPc = "preprocessed"
    /\ completeData' = GridResponse(cleanedRange, originalStructure)
    /\ cellMappings' = mapToExcelCells(completeData', originalStructure)
    /\ gridPc' = "mapped"
    /\ UNCHANGED <<range, cleanedRange, originalStructure>>
    /\ UNCHANGED <<chunkResponses, assemblyOptions, parsePc, rangeGroups,
                   written, mappingResult>>
    /\ UNCHANGED <<planVars, refreshVars>>
    /\ UNCHANGED authVars

----------------------------------------------------------------------------
\* auth-manager: session state, token refresh, authenticated requests

\* authState as the constructor and clearSession set it; token 0 is null,
\* token n the n-th token issued (user, connections and lastActivity are
\* left out)
ClearedState == [isAuthenticated |-> FALSE, token |-> 0]

\* the session: authState, the token item of local storage, the timer
Session(state, stored, timer) ==
    [authState |-> state, storedToken |-> stored, refreshTimer |-> timer]

CurrentSession == Session(authState, storedToken, refreshTimer)

\* clearSession
clearSession(session) == Session(ClearedState, 0, "none")

\* saveToStorage: the token item is written when there is a token
saveToStorage(session) ==
    IF session.authState.token # 0
    THEN [session EXCEPT !.storedToken = session.authState.token]
    ELSE session

\* setupTokenRefresh: a pending timer is cleared (its id stays in the
\* field), and a new one is scheduled when there is a token
setupTokenRefresh(session) ==
    IF session.authState.token = 0
    THEN [session EXCEPT !.refreshTimer =
             IF session.refreshTimer = "none" THEN "none" ELSE "stale"]
    ELSE [session EXCEPT !.refreshTimer = "scheduled"]

\* the replies of the token endpoint: a new token, a refusal (!response.ok)
\* or a failed fetch
RefreshOutcomes == {"ok", "refused", "threw"}

\* refreshToken from the reply of the token endpoint on: the new token is
\* stored in authState, saved and the timer set up; or the session is
\* cleared (the two awaits, fetch and response.json(), are taken together:
\* nothing is read between them)
refreshReplied(session, outcome, newToken) ==
    IF outcome = "ok"
    THEN setupTokenRefresh(saveToStorage(
             [session EXCEPT !.authState.token = newToken]))
    ELSE clearSession(session)

\* the session variables take the values of session
SetSession(session) ==
    /\ authState' = session.authState
    /\ storedToken' = session.storedToken
    /\ refreshTimer' = session.refreshTimer

\* makeAuthenticatedRequest from its entry to its first await or its
\* return, for the session as it stands: 'Not authenticated', the
\* refreshToken call of an expiring token, or the fetch of the endpoint
EnterRequest(session, expiring) ==
    IF ~session.authState.isAuthenticated \/ session.authState.token = 0
    THEN /\ requestPc' = "notAuthenticated"
         /\ UNCHANGED attempts
    ELSE IF expiring
    THEN /\ requestPc' = "preRefresh"
         /\ UNCHANGED attempts
    ELSE /\ requestPc' = "fetching"
         /\ attempts' = attempts + 1

\* login(credentials) is called
LoginStart ==
    /\ loginPc = "idle"
    /\ loginPc' = "signingIn"
    /\ loggedOut' = FALSE
    /\ UNCHANGED <<authState, storedToken, refreshTimer, timerPc, requestPc,
                   attempts, issued>>
    /\ UNCHANGED nonAuthVars

\* the sign-in reply arrives: on success the token is stored in authState
\* and isAuthenticated set, and syncWithDjangoBackend is awaited
LoginReplied(ok) ==
    /\ loginPc = "signingIn"
    /\ IF ok
       THEN /\ issued < MaxTokens
            /\ issued' = issued + 1
            /\ authState' = [isAuthenticated |-> TRUE, token |-> issued + 1]
            /\ loginPc' = "syncing"
       ELSE /\ loginPc' = "idle"
            /\ UNCHANGED <<authState, issued>>
    /\ UNCHANGED <<storedToken, refreshTimer, timerPc, requestPc, attempts,
                   loggedOut>>
    /\ UNCHANGED nonAuthVars

\* syncWithDjangoBackend settles (it catches its own errors): saveToStorage,
\* saveFirebaseUser, setupTokenRefresh
LoginSynced ==
    /\ loginPc = "syncing"
    /\ SetSession(setupTokenRefresh(saveToStorage(CurrentSession)))
    /\ loginPc' = "idle"
    /\ UNCHANGED <<timerPc, requestPc, attempts, issued, loggedOut>>
    /\ UNCHANGED nonAuthVars

\* logout(): clearSession
Logout ==
    /\ SetSession(clearSession(CurrentSession))
    /\ loggedOut' = TRUE
    /\ UNCHANGED <<loginPc, timerPc, requestPc, attempts, issued>>
    /\ UNCHANGED nonAuthVars

\* the refresh timer fires: refreshToken() is called, and returns at once
\* when there is no token
TimerFires ==
    /\ refreshTimer = "scheduled"
    /\ timerPc = "idle"
    /\ refreshTimer' = "stale"
    /\ timerPc' = IF authState.token = 0 THEN "idle" ELSE "refreshing"
    /\ UNCHANGED <<authState, storedToken, loginPc, requestPc, attempts,
                   issued, loggedOut>>
    /\ UNCHANGED nonAuthVars

\* the token endpoint replies to the refreshToken call of the timer
TimerRefreshReplied(outcome) ==
    /\ timerPc = "refreshing"
    /\ outcome = "ok" => issued < MaxTokens
    /\ SetSession(refreshReplied(CurrentSession, outcome, issued + 1))
    /\ issued' = IF outcome = "ok" THEN issued + 1 ELSE issued
    /\ timerPc' = "idle"
    /\ UNCHANGED <<loginPc, requestPc, attempts, loggedOut>>
    /\ UNCHANGED nonAuthVars

\* makeAuthenticatedRequest(endpoint, options) is called; expiring is what
\* isTokenExpiring() returns
RequestStart(expiring) ==
    /\ requestPc = "idle"
    /\ EnterRequest(CurrentSession, expiring)
    /\ UNCHANGED <<authState, storedToken, refreshTimer, loginPc, timerPc,
                   issued, loggedOut>>
    /\ UNCHANGED nonAuthVars

\* the refreshToken call made for an expiring token settles: 'Authentication
\* expired', or the endpoint is fetched with the token refreshToken has
\* just stored
PreRefreshReplied(outcome) ==
    /\ requestPc = "preRefresh"
    /\ outcome = "ok" => issued < MaxTokens /\ attempts < MaxAttempts
    /\ SetSession(refreshReplied(CurrentSession, outcome, issued + 1))
    /\ IF outcome = "ok"
       THEN /\ issued' = issued + 1
            /\ requestPc' = "fetching"
            /\ attempts' = attempts + 1
       ELSE /\ requestPc' = "expired"
            /\ UNCHANGED <<attempts, issued>>
    /\ UNCHANGED <<loginPc, timerPc, loggedOut>>
    /\ UNCHANGED nonAuthVars

\* the endpoint replies. 401: refreshToken() is called, which returns false
\* at once when there is no token (the session is then cleared). Otherwise
\* the call returns its result.
RequestReplied(status) ==
    /\ requestPc = "fetching"
    /\ IF status = "unauthorized"
       THEN IF authState.token = 0
            THEN /\ SetSession(clearSession(CurrentSession))
                 /\ requestPc' = "expired"
            ELSE /\ requestPc' = "retryRefresh"
                 /\ UNCHANGED <<authState, storedToken, refreshTimer>>
       ELSE /\ requestPc' = status
            /\ UNCHANGED <<authState, storedToken, refreshTimer>>
    /\ UNCHANGED <<loginPc, timerPc, attempts, issued, loggedOut>>
    /\ UNCHANGED nonAuthVars

\* the refreshToken call made after a 401 settles: refreshed, the call
\* returns this.makeAuthenticatedRequest(endpoint, options), entered anew;
\* otherwise clearSession and 'Authentication expired'
RetryRefreshReplied(outcome, expiring) ==
    /\ requestPc = "retryRefresh"
    /\ outcome = "ok" => issued < MaxTokens /\ attempts < MaxAttempts
    /\ \E session \in {refreshReplied(CurrentSession, outcome, issued + 1)} :
          /\ SetSession(session)
          /\ IF outcome = "ok"
             THEN /\ issued' = issued + 1
                  /\ EnterRequest(session, expiring)
             ELSE /\ requestPc' = "expired"
                  /\ UNCHANGED <<attempts, issued>>
    /\ UNCHANGED <<loginPc, timerPc, loggedOut>>
    /\ UNCHANGED nonAuthVars

----------------------------------------------------------------------------
\* Specifications

InitPlanVars ==
    /\ chunkingStrategy = DefaultStrategy
    /\ chunks = <<>>
    /\ planPc = "idle"
    /\ targetChunkCount = 0
    /\ membersPerChunk = 0
    /\ loopI = 0

InitRefreshVars ==
    /\ currentOperation = NoOperation
    /\ pc = [p \in Ops |-> "idle"]
    /\ opChunks = [p \in Ops |-> 0]
    /\ opI = [p \in Ops |-> 0]
    /\ responses = [p \in Ops |-> <<>>]
    /\ inflight = [p \in Ops |-> {}]
    /\ dispatched = [p \in Ops |-> <<>>]
    /\ cancelled = [p \in Ops |-> FALSE]
    /\ cancelledAfter = [p \in Ops |-> -1]
    /\ parseCall = [p \in Ops |-> NoParseCall]

InitParserVars ==
    /\ parsePc = "idle"
    /\ completeData = NoData
    /\ cellMappings = <<>>
    /\ rangeGroups = <<>>
    /\ written = <<>>
    /\ mappingResult = NoResult

\* nobody logged in, no session restored, no call under way
IdleAuth ==
    /\ authState = ClearedState
    /\ storedToken = 0
    /\ refreshTimer = "none"
    /\ loginPc = "idle"
    /\ timerPc = "idle"
    /\ requestPc = "idle"
    /\ attempts = 0
    /\ issued = 0
    /\ loggedOut = FALSE

\* no range selected
IdleGrid ==
    /\ range = <<>>
    /\ cleanedRange = <<>>
    /\ gridPc = "idle"

\* no parser input: the parser as initializeComponents leaves it
IdleParser ==
    /\ chunkResponses = <<>>
    /\ assemblyOptions = DefaultAssemblyOptions
    /\ originalStructure = HeaderedStructure
    /\ InitParserVars
    /\ IdleGrid

\* chunk planning over drawn dimension data
InitPlan ==
    /\ dimensions \in DimensionInputs
    /\ InitPlanVars
    /\ InitRefreshVars
    /\ IdleAuth
    /\ IdleParser

NextPlan ==
    \/ \E maxCells \in (-MaxNegativeSetting)..MaxCellsSetting, byDimension \in BOOLEAN :
          UpdateChunkingStrategy(maxCells, byDimension)
    \/ CreateChunks
    \/ DimensionLoopStep
    \/ DimensionLoopExit

SpecPlan == InitPlan /\ [][NextPlan]_vars

\* the refresh handler
InitRefresh ==
    /\ dimensions = MakeDimensions(0, <<>>)
    /\ InitPlanVars
    /\ InitRefreshVars
    /\ IdleAuth
    /\ IdleParser

NextRefresh ==
    \/ \E p \in Ops, ready \in BOOLEAN : HandleRefreshData(p, ready)
    \/ \E p \in Ops : RangeLoaded(p)
    \/ \E p \in Ops : RangeLoadFailed(p)
    \/ \E p \in Ops, n \in 0..MaxChunks : PreprocessDone(p, n)
    \/ \E p \in Ops : PreprocessFailed(p)
    \/ \E p \in Ops, ok \in BOOLEAN : ChunkSettled(p, ok)
    \/ \E p \in Ops : MappingDone(p)
    \/ HandleCancelOperation

SpecRefresh == InitRefresh /\ [][NextRefresh]_vars

\* the awaited calls of invocation p settle: the range load, preprocessData,
\* the chunk request in flight, parseAndMapResponse
Settles(p) ==
    \/ RangeLoaded(p)
    \/ RangeLoadFailed(p)
    \/ \E n \in 0..MaxChunks : PreprocessDone(p, n)
    \/ PreprocessFailed(p)
    \/ \E ok \in BOOLEAN : ChunkSettled(p, ok)
    \/ MappingDone(p)

\* the refresh handler, every awaited call eventually settling
SpecRefreshLive ==
    InitRefresh /\ [][NextRefresh]_vars /\ \A p \in Ops : WF_vars(Settles(p))

\* parseAndMapResponse over drawn response arrays and options
InitParse ==
    /\ dimensions = MakeDimensions(0, <<>>)
    /\ InitPlanVars
    /\ InitRefreshVars
    /\ IdleAuth
    /\ ResponseInputs(chunkResponses)
    /\ assemblyOptions \in {o \in AssemblyOptionsInputs : o.sortByChunkIndex}
    /\ originalStructure = HeaderedStructure
    /\ InitParserVars
    /\ IdleGrid

NextParse ==
    \E failedGroup \in 0..1, syncOk \in BOOLEAN :
        ParseAndMapResponse(failedGroup, syncOk)

SpecParse == InitParse /\ [][NextParse]_vars

\* assembleChunks over drawn response arrays in any order, under every
\* mergeStrategy and sortByChunkIndex
InitAssemble ==
    /\ dimensions = MakeDimensions(0, <<>>)
    /\ InitPlanVars
    /\ InitRefreshVars
    /\ IdleAuth
    /\ AssembleInputs(chunkResponses)
    /\ assemblyOptions \in {o \in AssemblyOptionsInputs :
                               /\ o.validateIntegrity
                               /\ o.handleMissingChunks = "error"}
    /\ originalStructure = HeaderedStructure
    /\ InitParserVars
    /\ IdleGrid

NextAssemble == AssembleChunks

SpecAssemble == InitAssemble /\ [][NextAssemble]_vars

\* mapToExcelCells over drawn assembled responses and structures
InitMap ==
    /\ dimensions = MakeDimensions(0, <<>>)
    /\ InitPlanVars
    /\ InitRefreshVars
    /\ IdleAuth
    /\ chunkResponses = <<>>
    /\ assemblyOptions = DefaultAssemblyOptions
    /\ originalStructure \in StructureInputs
    /\ parsePc = "idle"
    /\ AssembledInputs(completeData)
    /\ cellMappings = <<>>
    /\ rangeGroups = <<>>
    /\ written = <<>>
    /\ mappingResult = NoResult
    /\ IdleGrid

NextMap == MapToExcelCells

SpecMap == InitMap /\ [][NextMap]_vars

\* groupMappingsByRange over drawn sets of mappings, given in any order
InitGroup ==
    /\ dimensions = MakeDimensions(0, <<>>)
    /\ InitPlanVars
    /\ InitRefreshVars
    /\ IdleAuth
    /\ chunkResponses = <<>>
    /\ assemblyOptions = DefaultAssemblyOptions
    /\ originalStructure = HeaderedStructure
    /\ parsePc = "idle"
    /\ completeData = NoData
    /\ MappingInputs(cellMappings)
    /\ rangeGroups = <<>>
    /\ written = <<>>
    /\ mappingResult = NoResult
    /\ IdleGrid

NextGroup ==
    \E order \in Orders[Len(cellMappings)] : GroupMappingsByRange(order)

SpecGroup == InitGroup /\ [][NextGroup]_vars

\* structure detection over drawn selections, followed by the mapping of
\* the response to the preprocessed selection
InitGrid ==
    /\ dimensions = MakeDimensions(0, <<>>)
    /\ InitPlanVars
    /\ InitRefreshVars
    /\ IdleAuth
    /\ chunkResponses = <<>>
    /\ assemblyOptions = DefaultAssemblyOptions
    /\ originalStructure = NoStructure
    /\ InitParserVars
    /\ RangeInputs(range)
    /\ cleanedRange = <<>>
    /\ gridPc = "idle"

\* extractDimensions over drawn selections and structures
InitExtract ==
    /\ dimensions = MakeDimensions(0, <<>>)
    /\ InitPlanVars
    /\ InitRefreshVars
    /\ IdleAuth
    /\ chunkResponses = <<>>
    /\ assemblyOptions = DefaultAssemblyOptions
    /\ InitParserVars
    /\ ExtractInputs(range, originalStructure)
    /\ cleanedRange = <<>>
    /\ gridPc = "idle"

NextExtract == ExtractDimensions

SpecExtract == InitExtract /\ [][NextExtract]_vars

\* the chunks of a plan processed under 'skip' or 'interpolate', at most
\* one of them failing
InitPartial ==
    /\ PlanInputs(dimensions, chunkingStrategy, chunks)
    /\ planPc = "done"
    /\ targetChunkCount = 0
    /\ membersPerChunk = 0
    /\ loopI = 0
    /\ InitRefreshVars
    /\ IdleAuth
    /\ chunkResponses = <<>>
    /\ assemblyOptions \in {o \in AssemblyOptionsInputs :
                               /\ o.handleMissingChunks \in {"skip", "interpolate"}
                               /\ o.sortByChunkIndex
                               /\ o.validateIntegrity
                               /\ o.mergeStrategy = "smart"}
    /\ originalStructure = HeaderedStructure
    /\ InitParserVars
    /\ IdleGrid

NextPartial ==
    \E failed \in {{}} \cup {{j} : j \in 0..(Len(chunks) - 1)} :
        RefreshPlan(failed)

SpecPartial == InitPartial /\ [][NextPartial]_vars

\* one refresh of a drawn selection, from the click to the end of the
\* handler, under the strategy the constructor sets
InitSelection ==
    /\ dimensions = MakeDimensions(0, <<>>)
    /\ InitPlanVars
    /\ InitRefreshVars
    /\ IdleAuth
    /\ chunkResponses = <<>>
    /\ assemblyOptions = DefaultAssemblyOptions
    /\ originalStructure = NoStructure
    /\ InitParserVars
    /\ RangeInputs(range)
    /\ cleanedRange = <<>>
    /\ gridPc = "idle"

NextSelection ==
    \/ \E ready \in BOOLEAN : HandleRefreshData(1, ready)
    \/ RangeLoaded(1)
    \/ RangeLoadFailed(1)
    \/ PreprocessSelection(1)
    \/ \E ok \in BOOLEAN : ChunkSettled(1, ok)
    \/ MappingDone(1)
    \/ HandleCancelOperation

SpecSelection == InitSelection /\ [][NextSelection]_vars

\* the AuthManager after construction: no session, or the session
\* restoreSession found in local storage
InitAuth ==
    /\ dimensions = MakeDimensions(0, <<>>)
    /\ InitPlanVars
    /\ currentOperation = NoOperation
    /\ pc = [p \in Ops |-> "idle"]
    /\ opChunks = [p \in Ops |-> 0]
    /\ opI = [p \in Ops |-> 0]
    /\ responses = [p \in Ops |-> <<>>]
    /\ inflight = [p \in Ops |-> {}]
    /\ dispatched = [p \in Ops |-> <<>>]
    /\ cancelled = [p \in Ops |-> FALSE]
    /\ cancelledAfter = [p \in Ops |-> -1]
    /\ parseCall = [p \in Ops |-> NoParseCall]
    /\ IdleParser
    /\ \/ /\ authState = ClearedState
          /\ storedToken = 0
          /\ refreshTimer = "none"
          /\ issued = 0
       \/ /\ authState = [isAuthenticated |-> TRUE, token |-> 1]
          /\ storedToken = 1
          /\ refreshTimer = "scheduled"
          /\ issued = 1
    /\ loginPc = "idle"
    /\ timerPc = "idle"
    /\ requestPc = "idle"
    /\ attempts = 0
    /\ loggedOut = FALSE

NextAuth ==
    \/ LoginStart
    \/ \E ok \in BOOLEAN : LoginReplied(ok)
    \/ LoginSynced
    \/ Logout
    \/ TimerFires
    \/ \E outcome \in RefreshOutcomes : TimerRefreshReplied(outcome)
    \/ \E expiring \in BOOLEAN : RequestStart(expiring)
    \/ \E outcome \in RefreshOutcomes : PreRefreshReplied(outcome)
    \/ \E status \in {"unauthorized", "success", "failed", "networkError"} :
          RequestReplied(status)
    \/ \E outcome \in RefreshOutcomes, expiring \in BOOLEAN :
          RetryRefreshReplied(outcome, expiring)

SpecAuth == InitAuth /\ [][NextAuth]_vars

NextGrid ==
    \/ IdentifyStructure
    \/ CleanAndIdentify
    \/ MapGridResponse

SpecGrid == InitGrid /\ [][NextGrid]_vars

----------------------------------------------------------------------------
\* Properties of chunk planning (SpecPlan)

\* createChunks has returned
PlanReturned == planPc = "done"

\* the member names of the first row dimension ([] when there is none)
FirstDimMembers == RowMembers(dimensions)[1]

\* the first row dimension's members of each chunk, in creation order
FirstDimSlices == [j \in 1..Len(chunks) |-> chunks[j].rows[1]]

\* ceil(firstDimCount / chunkCount), 0 for an infinite chunk count
ExpectedSliceSize ==
    IF targetChunkCount = Infinity THEN 0
    ELSE CeilDiv(Len(FirstDimMembers), targetChunkCount)

\* C1: when the required chunk count ceil(totalCells / maxCellsPerChunk) is
\* more than one, the chunks' first-row-dimension slices, concatenated in
\* chunkIndex order, give exactly the original member list (so they are
\* contiguous, order-preserving and non-overlapping), every slice but the
\* last has ceil(firstDimCount / chunkCount) members and the last has no
\* more than that.
C1_SlicesPartitionFirstDimension ==
    (PlanReturned /\ targetChunkCount > 1) =>
        /\ Concat(FirstDimSlices) = FirstDimMembers
        /\ \A j \in 1..Len(chunks) :
              /\ chunks[j].chunkIndex = j - 1
              /\ Len(FirstDimSlices[j]) <= ExpectedSliceSize
              /\ j < Len(chunks) => Len(FirstDimSlices[j]) = ExpectedSliceSize

\* C1 witness: a plan of three slices whose last slice is the smaller one
C1_Witness ==
    /\ PlanReturned
    /\ targetChunkCount > 1
    /\ Len(chunks) = 3
    /\ Len(FirstDimSlices[3]) < Len(FirstDimSlices[1])

\* C2 (as claimed): with maxCellsPerChunk >= 1, every chunk of a plan of
\* more than one chunk has estimatedCells <= maxCellsPerChunk.
C2_ChunksBounded ==
    (PlanReturned /\ chunkingStrategy.maxCellsPerChunk >= 1
        /\ Len(chunks) > 1) =>
        \A j \in 1..Len(chunks) :
            chunks[j].estimatedCells <= chunkingStrategy.maxCellsPerChunk

\* C3 (as claimed): in a returned plan chunkIndex runs 0..k-1 in creation
\* order, totalChunks is the number k of chunks produced, and no chunk has
\* an empty slice of the first row dimension.
C3_IndexAndTotal ==
    PlanReturned =>
        \A j \in 1..Len(chunks) :
            /\ chunks[j].chunkIndex = j - 1
            /\ chunks[j].totalChunks = Len(chunks)
            /\ Len(dimensions.memberCombinations) > 0 =>
                   Len(chunks[j].rows[1]) > 0

\* columnDimensions and memberCombinations are both empty
EmptyQuery ==
    /\ Len(dimensions.columnDimensions) = 0
    /\ Len(dimensions.memberCombinations) = 0

C5_PlanNeverEmpty == PlanReturned => Len(chunks) >= 1

----------------------------------------------------------------------------
\* Properties of the refresh handler (SpecRefresh)

\* invocation p has passed the "operation in progress" guard and has not
\* finished
PastGuard(p) == pc[p] \in {"loading", "preprocessing", "awaitChunk", "mapping"}

\* the chunk indices for which p holds a response of the given status
Recorded(p, status) ==
    {responses[p][k].chunkIndex :
        k \in {k \in 1..Len(responses[p]) : responses[p][k].status = status}}

\* C6 (as claimed): at most one refresh operation is past the guard and not
\* yet finished.
C6_SingleActiveOperation ==
    Cardinality({p \in Ops : PastGuard(p)}) <= 1

\* C7 (as claimed): once cancel has hit an operation, that operation
\* dispatches no further chunk, whatever happens later.
C7_NoDispatchAfterCancel ==
    [][\A p \in Ops : cancelled[p] => dispatched'[p] = dispatched[p]]_vars

\* C8 (as claimed): an operation cancelled in its chunk loop after at least
\* one chunk had resolved ends having passed its responses to
\* parseAndMapResponse.
C8_CancelledPassesPartialResults ==
    \A p \in Ops :
        (pc[p] = "done" /\ cancelledAfter[p] >= 1) =>
            /\ parseCall[p].called
            /\ parseCall[p].responses = responses[p]

\* C8 (amended): an operation cancelled in its chunk loop passes nothing to
\* parseAndMapResponse (so it writes no cell and reports no result) unless,
\* when its loop ends, currentOperation is the active operation of another,
\* later refresh; the cancelled operation's own object is never active
\* again.
C8_CancelledSkipsAssembly ==
    \A p \in Ops :
        (cancelledAfter[p] >= 0 /\ parseCall[p].called) =>
            parseCall[p].operationId \in Ops \ {p}

\* C8 witness: an operation cancelled after a chunk had resolved has
\* finished, holding responses, without calling parseAndMapResponse
C8_Witness ==
    \E p \in Ops :
        /\ pc[p] = "done"
        /\ cancelledAfter[p] >= 1
        /\ Len(responses[p]) >= 2
        /\ ~parseCall[p].called

\* C9: each operation dispatches chunks 0, 1, 2, ... in that order, a chunk
\* only after every earlier chunk has a recorded response (success or
\* error), and has at most one request in flight, which is the chunk
\* dispatched last.
C9_SequentialDispatch ==
    \A p \in Ops :
        /\ dispatched[p] = [j \in 1..Len(dispatched[p]) |-> j - 1]
        /\ Cardinality(inflight[p]) <= 1
        /\ \A c \in inflight[p] : c = Len(dispatched[p]) - 1
        /\ \A c \in 0..(Len(dispatched[p]) - 2) :
              c \in Recorded(p, "success") \cup Recorded(p, "error")

\* C9 witness: the last of three chunks is in flight, the first recorded
\* as an error and the second as a success
C9_Witness ==
    \E p \in Ops :
        /\ dispatched[p] = <<0, 1, 2>>
        /\ inflight[p] = {2}
        /\ responses[p] = <<ErrorResponse(0), SuccessResponse(1)>>

\* C10 (as claimed): with no cancel requested at all, an operation whose
\* chunk loop is over and that recorded a failed chunk has dispatched every
\* one of its chunks.
C10_FailureDoesNotStopTheRest ==
    \A p \in Ops :
        (/\ pc[p] \in {"mapping", "done"}
         /\ \A q \in Ops : ~cancelled[q]
         /\ Recorded(p, "error") \ Recorded(p, "success") # {}) =>
            Len(dispatched[p]) = opChunks[p]

\* the chunk indices of p whose dispatch has resolved: dispatched and no
\* longer in flight
Resolved(p) ==
    {dispatched[p][j] : j \in 1..Len(dispatched[p])} \ inflight[p]

\* the number of responses p holds for chunk c
ResponseCount(p, c) ==
    Cardinality({k \in 1..Len(responses[p]) : responses[p][k].chunkIndex = c})

\* C11 (as claimed): at every point of a refresh operation its response
\* buffer holds exactly one ChunkResponse for each chunk whose dispatch has
\* resolved and none for any other chunk, also when cancel is requested
\* while a chunk request is in flight.
C11_OneResponsePerResolvedChunk ==
    \A p \in Ops : \A c \in 0..MaxChunks :
        ResponseCount(p, c) = IF c \in Resolved(p) THEN 1 ELSE 0

----------------------------------------------------------------------------
\* Properties of the response parser (SpecParse, SpecAssemble)

\* parseAndMapResponse has returned its MappingResult
Returned == parsePc = "returned"

\* the number of responses handed in with the given status
StatusCount(status) == Len(WithStatus(chunkResponses, status))

\* some responses failed and some succeeded
PartialFailure == StatusCount("error") > 0 /\ StatusCount("success") > 0

\* the result lists an error / a warning of the given kind
HasError(kind) ==
    \E k \in 1..Len(mappingResult.errors) : mappingResult.errors[k].kind = kind

HasWarning(kind) ==
    \E k \in 1..Len(mappingResult.warnings) : mappingResult.warnings[k].kind = kind

\* the Excel update itself failed, for one range or as a whole
UpdateFailed == HasError("rangeUpdateFailed") \/ HasError("excelUpdateFailed")

\* the parsed values of the given rows
ValuesIn(rows) ==
    UNION {{parseValue(rows[r].data[c]) : c \in 1..Len(rows[r].data)} :
              r \in 1..Len(rows)}

\* the values assigned to the sheet
WrittenValues ==
    UNION {{written[g].values[1][c] : c \in 1..Len(written[g].values[1])} :
              g \in 1..Len(written)}

\* the chunk indices of the successful responses, ascending
SuccessIndicesAscending ==
    LET sorted == SortByChunkIndex(WithStatus(chunkResponses, "success"))
    IN  [k \in 1..Len(sorted) |-> sorted[k].chunkIndex]

\* C12 (as claimed): when some but not all chunks failed and the chunks
\* that succeeded hold a value, the result reports success = false with
\* cellsUpdated > 0, under every handleMissingChunks policy (the Excel
\* update itself not failing).
C12_PartialFailureStillWrites ==
    (/\ Returned
     /\ PartialFailure
     /\ ValuesIn(AllRows(WithStatus(chunkResponses, "success"))) # {}
     /\ ~UpdateFailed) =>
        /\ ~mappingResult.success
        /\ mappingResult.cellsUpdated > 0

\* C12 (amended): when some but not all chunks failed, then under
\* handleMissingChunks = 'error' the result is success = false with
\* cellsUpdated = 0 and no cell is written; under 'skip' or 'interpolate'
\* the failures are reported as a warning only, the successful responses
\* are assembled, and unless context.sync() fails cellsUpdated is the number
\* of assembled values, success is true exactly when no range update
\* failed, and with no update failure every assembled value is written.
C12_PartialFailureByPolicy ==
    (Returned /\ PartialFailure) =>
        IF assemblyOptions.handleMissingChunks = "error"
        THEN /\ ~mappingResult.success
             /\ mappingResult.cellsUpdated = 0
             /\ HasError("chunksFailed")
             /\ written = <<>>
        ELSE /\ HasWarning("chunksFailed")
             /\ ~HasError("chunksFailed")
             /\ completeData.from = SuccessIndicesAscending
             /\ IF HasError("excelUpdateFailed")
                THEN /\ ~mappingResult.success
                     /\ mappingResult.cellsUpdated = 0
                     /\ written = <<>>
                ELSE /\ mappingResult.cellsUpdated = SumDataLen(completeData.rows)
                     /\ mappingResult.success = ~HasError("rangeUpdateFailed")
                     /\ ~UpdateFailed => WrittenValues = ValuesIn(completeData.rows)

\* C12 witness: under 'skip' one chunk failed, one succeeded, the values of
\* the successful one were written and the result reports success
C12_Witness ==
    /\ Returned
    /\ PartialFailure
    /\ assemblyOptions.handleMissingChunks = "skip"
    /\ mappingResult.success
    /\ mappingResult.cellsUpdated > 0
    /\ WrittenValues # {}

\* actualSuccesses < expectedChunks = max(chunkIndex) + 1: some response
\* carries a chunk index that the number of successes does not reach
MissingChunks ==
    \E k \in 1..Len(chunkResponses) :
        chunkResponses[k].chunkIndex >= StatusCount("success")

\* C13: when fewer responses succeeded than max(chunkIndex) + 1, then under
\* handleMissingChunks = 'error' the operation fails (success = false, the
\* missing count among its errors) and writes no cell, and under 'skip' or
\* 'interpolate' the missing count is recorded as a warning and
\* assembleChunks takes exactly the successful responses (and throws only
\* when there is none).
C13_MissingChunksByPolicy ==
    (Returned /\ MissingChunks) =>
        IF assemblyOptions.handleMissingChunks = "error"
        THEN /\ ~mappingResult.success
             /\ mappingResult.cellsUpdated = 0
             /\ HasError("missingChunks")
             /\ written = <<>>
        ELSE /\ HasWarning("missingChunks")
             /\ ~HasError("missingChunks")
             /\ completeData.from = SuccessIndicesAscending
             /\ completeData.threw = (StatusCount("success") = 0)
             /\ (assemblyOptions.mergeStrategy = "append"
                 /\ StatusCount("success") > 0) =>
                    completeData.rows =
                        AllRows(SortByChunkIndex(WithStatus(chunkResponses, "success")))

\* C13 witness: under 'interpolate' the response of a chunk is absent
\* (none failed), the warning is recorded and the rows of the successful
\* responses were assembled and written
C13_Witness ==
    /\ Returned
    /\ MissingChunks
    /\ StatusCount("error") = 0
    /\ assemblyOptions.handleMissingChunks = "interpolate"
    /\ HasWarning("missingChunks")
    /\ Len(completeData.from) = 2
    /\ WrittenValues # {}

\* C14: under every handleMissingChunks policy and every merge strategy,
\* when no response has status success the result has success = false and
\* cellsUpdated = 0, no range group is formed or written, and the errors
\* tell why: 'No responses provided' for an empty array, the number of
\* failed chunks under 'error', and 'No successful responses to assemble'
\* (with the number of failed chunks as a warning) under 'skip' or
\* 'interpolate'.
C14_NoSuccessFails ==
    (Returned /\ StatusCount("success") = 0) =>
        /\ ~mappingResult.success
        /\ mappingResult.cellsUpdated = 0
        /\ mappingResult.rangesUpdated = 0
        /\ rangeGroups = <<>>
        /\ written = <<>>
        /\ completeData.threw
        /\ IF Len(chunkResponses) = 0 THEN HasError("noResponses")
           ELSE IF assemblyOptions.handleMissingChunks = "error"
           THEN StatusCount("error") > 0 =>
                    mappingResult.errors[1] =
                        Message("chunksFailed", StatusCount("error"))
           ELSE /\ HasError("noSuccessfulResponses")
                /\ StatusCount("error") > 0 =>
                       mappingResult.warnings[1] =
                           Message("chunksFailed", StatusCount("error"))
        /\ Len(mappingResult.errors) > 0

\* C14 witness: three responses, all with status error, under 'error'; the
\* result lists the three failures
C14_Witness ==
    /\ Returned
    /\ Len(chunkResponses) = 3
    /\ StatusCount("error") = 3
    /\ assemblyOptions.handleMissingChunks = "error"
    /\ ~mappingResult.success
    /\ mappingResult.errors[1] = Message("chunksFailed", 3)

\* assembleChunks, called on its own, has returned
Assembled == parsePc = "assembled"

\* the rows of the successful response to chunk ci (none if there is no
\* such response)
RowsOfChunk(ci) ==
    LET hits == {k \in 1..Len(chunkResponses) :
                    /\ chunkResponses[k].chunkIndex = ci
                    /\ chunkResponses[k].status = "success"}
    IN  IF hits = {} THEN <<>> ELSE chunkResponses[CHOOSE k \in hits : TRUE].rows

\* the rows of the successful responses, by ascending chunk index
RowsAscending == Concat([i \in 1..MaxResponses |-> RowsOfChunk(i - 1)])

\* the positions of RowsAscending with no earlier row of equal members
NoEarlierEqual ==
    {k \in 1..Len(RowsAscending) :
        ~\E j \in 1..(k - 1) :
            /\ RowsAscending[j].hasMembers
            /\ RowsAscending[k].hasMembers
            /\ RowsAscending[j].members = RowsAscending[k].members}

\* C15: with two or more successful responses and sortByChunkIndex = true,
\* whatever the order of the responses array, the assembled rows under
\* 'smart' and under 'overlay' are the successful responses' rows in
\* ascending chunkIndex order without the rows that have an earlier row of
\* equal ordered members (so a row without members always stays), and
\* under 'append' they are all those rows, as many as the chunks' row
\* counts add up to.
C15_AssembledRows ==
    (/\ Assembled
     /\ StatusCount("success") >= 2
     /\ assemblyOptions.sortByChunkIndex) =>
        /\ ~completeData.threw
        /\ assemblyOptions.mergeStrategy \in {"smart", "overlay"} =>
              /\ completeData.rows = FilterByIndex(RowsAscending, NoEarlierEqual, 1)
              /\ \A k \in 1..Len(RowsAscending) :
                    ~RowsAscending[k].hasMembers =>
                        \E j \in 1..Len(completeData.rows) :
                            completeData.rows[j] = RowsAscending[k]
        /\ assemblyOptions.mergeStrategy = "append" =>
              /\ completeData.rows = RowsAscending
              /\ Len(completeData.rows) =
                    SumLen([k \in 1..Len(chunkResponses) |->
                               IF chunkResponses[k].status = "success"
                               THEN chunkResponses[k].rows ELSE <<>>])

\* C15 witness: two successful responses given in descending chunk order,
\* each with one row of the same members; under 'smart' only the row of
\* the lower chunk index is left
C15_Witness ==
    /\ Assembled
    /\ assemblyOptions.sortByChunkIndex
    /\ assemblyOptions.mergeStrategy = "smart"
    /\ Len(chunkResponses) = 2
    /\ StatusCount("success") = 2
    /\ chunkResponses[1].chunkIndex > chunkResponses[2].chunkIndex
    /\ Len(RowsAscending) = 2
    /\ completeData.rows = chunkResponses[2].rows

\* the actualCells of the responses handed in do not add up to the number
\* of assembled values
CellCountMismatch ==
    SumActualCells(chunkResponses) # SumDataLen(completeData.rows)

\* an assembled row has not as many values as the column count, which
\* without data.columns is the first row's number of values
InconsistentRow ==
    \E r \in 1..Len(completeData.rows) :
        Len(completeData.rows[r].data) # Len(completeData.rows[1].data)

\* C16: the integrity check is advisory. When the assembled data shows a
\* cell count mismatch or a row of inconsistent length, the check (if
\* enabled) adds exactly the matching warnings and no error; the cells are
\* still written and success is true when no write failed: success is
\* false only for a failed update, cellsUpdated is the number of assembled
\* values unless context.sync() failed, and with no update failure every
\* assembled value is written.
C16_IntegrityAdvisory ==
    (/\ Returned
     /\ ~completeData.threw
     /\ CellCountMismatch \/ InconsistentRow) =>
        /\ HasWarning("cellCountMismatch") =
              (assemblyOptions.validateIntegrity /\ CellCountMismatch)
        /\ HasWarning("inconsistentRows") =
              (assemblyOptions.validateIntegrity /\ InconsistentRow)
        /\ ~HasError("cellCountMismatch")
        /\ ~HasError("inconsistentRows")
        /\ mappingResult.success = ~UpdateFailed
        /\ ~HasError("excelUpdateFailed") =>
              mappingResult.cellsUpdated = SumDataLen(completeData.rows)
        /\ ~UpdateFailed => WrittenValues = ValuesIn(completeData.rows)

\* C16 witness: the check found a cell count mismatch (a row was removed
\* as a duplicate), and the result is a success with cells written
C16_Witness ==
    /\ Returned
    /\ assemblyOptions.validateIntegrity
    /\ HasWarning("cellCountMismatch")
    /\ Len(mappingResult.errors) = 0
    /\ mappingResult.success
    /\ mappingResult.cellsUpdated > 0
    /\ WrittenValues # {}

\* mapToExcelCells, called on its own, has returned
Mapped == parsePc = "mapped"

\* the mappings made for the value at row r, column c (0-based) of the
\* assembled response
MappingsOf(r, c) ==
    {k \in 1..Len(cellMappings) :
        cellMappings[k].sourceRow = r /\ cellMappings[k].sourceCol = c}

\* C18: mapToExcelCells makes exactly one mapping for each value of the
\* assembled response (as many as the rows' data lengths add up to), with
\* targetRow = dataStartRow + r and targetCol = dataStartCol + c for the
\* value at row r, column c; within a target row the target columns
\* strictly increase along the mappings, and no two mappings share a
\* target cell.
C18_OneMappingPerValue ==
    Mapped =>
        /\ Len(cellMappings) =
              SumLen([r \in 1..Len(completeData.rows) |-> completeData.rows[r].data])
        /\ \A r \in 1..Len(completeData.rows) :
              \A c \in 1..Len(completeData.rows[r].data) :
                  /\ Cardinality(MappingsOf(r - 1, c - 1)) = 1
                  /\ \A k \in MappingsOf(r - 1, c - 1) :
                        /\ cellMappings[k].targetRow =
                              originalStructure.dataStartRow + (r - 1)
                        /\ cellMappings[k].targetCol =
                              originalStructure.dataStartCol + (c - 1)
                        /\ cellMappings[k].value =
                              parseValue(completeData.rows[r].data[c])
        /\ \A j, k \in 1..Len(cellMappings) :
              (j < k /\ cellMappings[j].targetRow = cellMappings[k].targetRow) =>
                  cellMappings[j].targetCol < cellMappings[k].targetCol
        /\ \A j, k \in 1..Len(cellMappings) :
              (/\ cellMappings[j].targetRow = cellMappings[k].targetRow
               /\ cellMappings[j].targetCol = cellMappings[k].targetCol) => j = k

\* C18 witness: an assembled response of 2 rows x 3 values, mapped under a
\* structure with dataStartRow 1 and dataStartCol 2, gives 6 mappings, the
\* last one at row 2, column 4
C18_Witness ==
    /\ Mapped
    /\ Len(completeData.rows) = 2
    /\ \A r \in 1..2 : Len(completeData.rows[r].data) = 3
    /\ originalStructure.dataStartRow = 1
    /\ originalStructure.dataStartCol = 2
    /\ Len(cellMappings) = 6
    /\ cellMappings[6].targetRow = 2
    /\ cellMappings[6].targetCol = 4

\* groupMappingsByRange, called on its own, has returned
Grouped == parsePc \in {"grouped", "groupedUnsorted"}

\* the groups whose cells include the target cell of mapping m
GroupsHolding(m) ==
    {g \in 1..Len(rangeGroups) :
        /\ rangeGroups[g].startRow = m.targetRow
        /\ rangeGroups[g].startCol <= m.targetCol
        /\ m.targetCol < rangeGroups[g].startCol + rangeGroups[g].numCols}

\* C19: for mappings with distinct target cells given in any order, the
\* groups are exactly the maximal runs of same-row, column-adjacent cells:
\* every group is one row tall with values[0] of length numCols, the groups
\* hold as many cells as there are mappings, every mapping's value lies in
\* exactly one group at its own position, and no group starts where
\* another group of the same row ends.
C19_MaximalRuns ==
    Grouped =>
        /\ \A g \in 1..Len(rangeGroups) :
              /\ rangeGroups[g].numRows = 1
              /\ Len(rangeGroups[g].values) = 1
              /\ rangeGroups[g].numCols >= 1
              /\ Len(rangeGroups[g].values[1]) = rangeGroups[g].numCols
        /\ SumLen([g \in 1..Len(rangeGroups) |-> rangeGroups[g].values[1]])
              = Len(cellMappings)
        /\ \A k \in 1..Len(cellMappings) :
              /\ Cardinality(GroupsHolding(cellMappings[k])) = 1
              /\ \A g \in GroupsHolding(cellMappings[k]) :
                    rangeGroups[g].values[1][cellMappings[k].targetCol
                                             - rangeGroups[g].startCol + 1]
                        = cellMappings[k].value
        /\ \A g, h \in 1..Len(rangeGroups) :
              rangeGroups[g].startRow = rangeGroups[h].startRow =>
                  rangeGroups[g].startCol + rangeGroups[g].numCols
                      # rangeGroups[h].startCol

\* C19 witness: the mappings at columns 0, 1 and 3 of row 0 and at column
\* 2 of row 1, given out of order, are grouped into {row 0, startCol 0,
\* numCols 2}, {row 0, startCol 3, numCols 1} and {row 1, startCol 2,
\* numCols 1}
C19_Witness ==
    /\ parsePc = "groupedUnsorted"
    /\ cellMappings = <<MappingAt(0, 0), MappingAt(0, 1), MappingAt(0, 3),
                        MappingAt(1, 2)>>
    /\ Len(rangeGroups) = 3
    /\ rangeGroups[1].startRow = 0
    /\ rangeGroups[1].startCol = 0 /\ rangeGroups[1].numCols = 2
    /\ rangeGroups[2].startRow = 0
    /\ rangeGroups[2].startCol = 3 /\ rangeGroups[2].numCols = 1
    /\ rangeGroups[3].startRow = 1
    /\ rangeGroups[3].startCol = 2 /\ rangeGroups[3].numCols = 1

----------------------------------------------------------------------------
\* Properties of structure detection and cell placement (SpecGrid)

\* the rows of the selection (0-based) that cleanEmptyRows keeps, in order
KeptRows ==
    SelectSeq([r \in 1..Len(range) |-> r - 1],
              LAMBDA r : HasContent(range[r + 1]))

\* the columns (0-based) of the column headers: the non-empty cells of the
\* row above the first data row, from dataStartCol on
HeaderCols ==
    LET headerRow == cleanedRange[originalStructure.dataStartRow]
    IN  SelectSeq([c \in 1..Len(headerRow) |-> c - 1],
                  LAMBDA c : /\ c >= originalStructure.dataStartCol
                             /\ headerRow[c + 1] # EmptyCell)

\* C17 (as claimed): every value is mapped to its position in the original
\* selection: the values of the r-th data row to the row of the selection
\* that holds that data row (blank rows of the selection counted), and the
\* c-th value of a row to the column of the c-th column header.
C17_ValuesAtOriginalPosition ==
    gridPc = "mapped" =>
        \A k \in 1..Len(cellMappings) :
            /\ cellMappings[k].targetRow =
                  KeptRows[originalStructure.dataStartRow
                           + cellMappings[k].sourceRow + 1]
            /\ cellMappings[k].targetCol =
                  HeaderCols[cellMappings[k].sourceCol + 1]

\* the selection has a non-empty cell in row 0 and a non-empty cell in
\* column 0 (non-empty as identifyStructure tests it: cell !== "")
HasHeaderAndDataStart ==
    /\ Len(range) > 0
    /\ \E c \in 1..Len(range[1]) : range[1][c] # EmptyCell
    /\ \E r \in 1..Len(range) : range[r][1] # EmptyCell

\* C20: for a grid with a non-empty cell in row 0 and a non-empty column-0
\* cell in some row, identifyStructure returns (it does not throw) with
\* isEmpty = false, dataStartCol the least column whose row-0 cell is
\* non-empty, dataStartRow the least row whose column-0 cell is non-empty
\* and, when dataStartRow > 0, columnHeaders the non-empty cells of row
\* dataStartRow - 1 from dataStartCol onward, in order.
C20_StructureOfHeaderedGrid ==
    (gridPc = "structure" /\ HasHeaderAndDataStart) =>
        /\ originalStructure.error = "none"
        /\ ~originalStructure.isEmpty
        /\ originalStructure.dataStartCol \in 0..(Len(range[1]) - 1)
        /\ range[1][originalStructure.dataStartCol + 1] # EmptyCell
        /\ \A c \in 1..originalStructure.dataStartCol : range[1][c] = EmptyCell
        /\ originalStructure.dataStartRow \in 0..(Len(range) - 1)
        /\ range[originalStructure.dataStartRow + 1][1] # EmptyCell
        /\ \A r \in 1..originalStructure.dataStartRow : range[r][1] = EmptyCell
        /\ originalStructure.dataStartRow > 0 =>
              originalStructure.columnHeaders =
                  FilterByIndex(range[originalStructure.dataStartRow],
                                {c \in (originalStructure.dataStartCol + 1)
                                       ..Len(range[originalStructure.dataStartRow]) :
                                    range[originalStructure.dataStartRow][c]
                                        # EmptyCell},
                                1)

\* C20 witness: a selection with a POV row, a header row and a data row:
\* the data starts at row 2 and column 1, and the one column header is
\* taken from row 1 past an empty cell
C20_Witness ==
    /\ gridPc = "structure"
    /\ HasHeaderAndDataStart
    /\ Len(range) = 3
    /\ Len(range[1]) = 3
    /\ originalStructure.dataStartRow = 2
    /\ originalStructure.dataStartCol = 1
    /\ range[2][2] = EmptyCell
    /\ originalStructure.columnHeaders = <<range[2][3]>>

\* C21: for a grid whose cell (0,0) is non-empty, identifyStructure
\* returns (it does not throw) with dataStartRow = 0, reads no row with an
\* index below 0, and yields povMembers = [] and columnHeaders = [].
C21_NoRowsAboveData ==
    (gridPc = "structure" /\ Len(range) > 0 /\ range[1][1] # EmptyCell) =>
        /\ originalStructure.error = "none"
        /\ ~originalStructure.isEmpty
        /\ originalStructure.dataStartRow = 0
        /\ \A r \in RowsRead(range) : r >= 0 /\ r < Len(range)
        /\ originalStructure.povMembers = <<>>
        /\ originalStructure.columnHeaders = <<>>

\* C21 witness: a selection of several rows and columns whose cell (0,0)
\* and further cells of row 0 are filled has had its structure identified
C21_Witness ==
    /\ gridPc = "structure"
    /\ Len(range) >= 2
    /\ Len(range[1]) >= 2
    /\ range[1][1] # EmptyCell
    /\ range[1][2] # EmptyCell
    /\ originalStructure.dataStartRow = 0
    /\ Len(originalStructure.rowHeaders) >= 1

\* identifyStructure has returned a structure, on the selection itself or
\* within preprocessData on the cleaned selection
Identified ==
    \/ gridPc = "structure" /\ Len(range) > 0 /\ originalStructure.error = "none"
    \/ gridPc = "preprocessed"

\* the grid identifyStructure was given
IdentifiedGrid == IF gridPc = "structure" THEN range ELSE cleanedRange

\* the non-empty cells of grid row r (0-based) from dataStartCol onward
MembersOfRow(r) ==
    FilterByIndex(IdentifiedGrid[r + 1],
                  {c \in (originalStructure.dataStartCol + 1)
                         ..Len(IdentifiedGrid[r + 1]) :
                      IdentifiedGrid[r + 1][c] # EmptyCell},
                  1)

\* the member lists of the POV rows, the rows with index < dataStartRow - 1
PovLists ==
    [r \in 1..Max(0, originalStructure.dataStartRow - 1) |-> MembersOfRow(r - 1)]

\* C22 (as claimed): povMembers has exactly one member list per POV row, in
\* row order, each list being that row's non-empty cells from dataStartCol
\* onward.
C22_OneListPerPovRow ==
    Identified => originalStructure.povMembers = PovLists

\* C22 (amended): povMembers holds, in row order, the member list of each
\* POV row that has a non-empty cell from dataStartCol onward; a POV row
\* without one contributes no list.
C22_OneListPerNonEmptyPovRow ==
    Identified =>
        originalStructure.povMembers =
            FilterByIndex(PovLists,
                          {r \in 1..Len(PovLists) : PovLists[r] # <<>>}, 1)

\* C22 witness: preprocessData has identified a structure with two POV
\* rows, of which the second has no member from dataStartCol onward and is
\* left out of povMembers
C22_Witness ==
    /\ gridPc = "preprocessed"
    /\ originalStructure.dataStartRow = 3
    /\ PovLists[1] # <<>>
    /\ PovLists[2] = <<>>
    /\ originalStructure.povMembers = <<PovLists[1]>>

----------------------------------------------------------------------------
\* Properties of extractDimensions (SpecExtract)

\* the columns (1-based) of the non-empty header cells of grid row r
\* (1-based), in order
HeaderColsOfRow(r) ==
    SelectSeq([c \in 1..Min(originalStructure.dataStartCol, Len(range[r])) |-> c],
              LAMBDA c : range[r][c] # EmptyCell)

\* the data rows (1-based) that have an i-th non-empty header cell
RowsWithHeader(i) ==
    {r \in (originalStructure.dataStartRow + 1)..Len(range) :
        Len(HeaderColsOfRow(r)) >= i}

\* the i-th non-empty header cell of data row r
HeaderCell(r, i) == range[r][HeaderColsOfRow(r)[i]]

\* the first data row whose i-th non-empty header cell is member
FirstRowOf(member, i) ==
    CHOOSE r \in RowsWithHeader(i) :
        /\ HeaderCell(r, i) = member
        /\ \A q \in RowsWithHeader(i) : HeaderCell(q, i) = member => r <= q

\* C23: extractDimensions returns rowDimensions and memberCombinations of
\* equal length, the greatest number of non-empty header cells (columns
\* before dataStartCol) of a data row; memberCombinations[i] holds, tagged
\* RowDim_(i+1), without duplicates and in order of first appearance, the
\* i-th non-empty header cells of the data rows that have one.
C23_RowDimensions ==
    gridPc = "extracted" =>
        /\ Len(dimensions.rowDimensions) = Len(dimensions.memberCombinations)
        /\ \A r \in RowsWithHeader(1) :
              Len(HeaderColsOfRow(r)) <= Len(dimensions.rowDimensions)
        /\ \A i \in 1..Len(dimensions.rowDimensions) :
              /\ RowsWithHeader(i) # {}
              /\ dimensions.rowDimensions[i] = i
              /\ {dimensions.memberCombinations[i][k].member :
                     k \in 1..Len(dimensions.memberCombinations[i])}
                    = {HeaderCell(r, i) : r \in RowsWithHeader(i)}
              /\ \A k \in 1..Len(dimensions.memberCombinations[i]) :
                    dimensions.memberCombinations[i][k].dimension = i
              /\ \A k, l \in 1..Len(dimensions.memberCombinations[i]) :
                    k < l =>
                        /\ dimensions.memberCombinations[i][k].member
                              # dimensions.memberCombinations[i][l].member
                        /\ FirstRowOf(dimensions.memberCombinations[i][k].member, i)
                              < FirstRowOf(dimensions.memberCombinations[i][l].member, i)

\* C23 witness: three data rows with the header cells (B, A), (empty, B)
\* and (B, empty) give two row dimensions: the first with the one member
\* B, the first non-empty header cell of all three rows, the second with
\* the member A
C23_Witness ==
    /\ gridPc = "extracted"
    /\ originalStructure.dataStartCol = 2
    /\ Len(range) - originalStructure.dataStartRow = 3
    /\ Len(dimensions.rowDimensions) = 2
    /\ Cardinality(RowsWithHeader(1)) = 3
    /\ Cardinality(RowsWithHeader(2)) = 1
    /\ Len(dimensions.memberCombinations[1]) = 1
    /\ Len(dimensions.memberCombinations[2]) = 1
    /\ dimensions.memberCombinations[1][1].member.text = <<"B">>
    /\ dimensions.memberCombinations[2][1].member.text = <<"A">>

----------------------------------------------------------------------------
\* Properties of the refresh of a selection (SpecSelection)

\* preprocessData has settled for the refresh
Preprocessed == gridPc \in {"failed", "preprocessed"}

\* the refresh has ended in the outer catch with nothing planned, sent or
\* handed to the parser, and the guard is inactive
AbortedBeforePlanning ==
    /\ gridPc = "failed"
    /\ pc[1] = "done"
    /\ chunks = <<>>
    /\ dispatched[1] = <<>>
    /\ responses[1] = <<>>
    /\ ~parseCall[1].called
    /\ written = <<>>
    /\ ~IsActive(currentOperation)

\* C24 (as claimed): when the selected grid is empty, has no non-empty
\* cell in row 0, or has no non-empty column-0 cell in any row, the refresh
\* aborts before any chunk is planned or dispatched: no request is sent,
\* no cell is written and the guard is inactive afterwards.
C24_UndetectableGridAborts ==
    (/\ Preprocessed
     /\ \/ Len(range) = 0
        \/ \A c \in 1..Len(range[1]) : range[1][c] = EmptyCell
        \/ \A r \in 1..Len(range) : range[r][1] = EmptyCell)
        => AbortedBeforePlanning

\* C24 (amended): when the selection is empty, has fewer than two rows or
\* two columns, or has no column-0 cell with content other than white
\* space in any row (a selection of blank cells included), the refresh
\* aborts before any chunk is planned or dispatched: no request is sent,
\* no cell is written and the guard is inactive afterwards.
C24_UnusableSelectionAborts ==
    (/\ Preprocessed
     /\ \/ Len(range) < 2
        \/ Len(range[1]) < 2
        \/ \A r \in 1..Len(range) : Trim(range[r][1]) = EmptyCell)
        => AbortedBeforePlanning

\* C24 witness: the refresh of a selection of at least 2 x 2 cells with
\* content in row 0 and none in column 0 has been aborted
C24_Witness ==
    /\ AbortedBeforePlanning
    /\ Len(range) >= 2
    /\ Len(range[1]) >= 2
    /\ \E c \in 1..Len(range[1]) : Trim(range[1][c]) # EmptyCell
    /\ \A r \in 1..Len(range) : Trim(range[r][1]) = EmptyCell

----------------------------------------------------------------------------
\* Further properties of chunk planning (SpecPlan)

\* C25: when planning produces more than one chunk from dimension data
\* with two or more row dimensions, every member of every row dimension
\* appears in gridDefinition.rows of at least one chunk.
C25_EveryMemberPlanned ==
    (/\ planPc = "done"
     /\ Len(chunks) > 1
     /\ Len(dimensions.memberCombinations) >= 2) =>
        \A d \in 1..Len(dimensions.memberCombinations) :
            \A k \in 1..Len(dimensions.memberCombinations[d]) :
                \E c \in 1..Len(chunks) :
                    \E j \in 1..Len(chunks[c].rows[d]) :
                        chunks[c].rows[d][j]
                            = dimensions.memberCombinations[d][k].member

----------------------------------------------------------------------------
\* Properties of the outcome of a plan with a failed chunk (SpecPartial)

RECURSIVE RowsBefore(_)
\* the number of rows the chunks before chunk ci bring when they succeed
RowsBefore(ci) ==
    IF ci = 0 THEN 0 ELSE RowsBefore(ci - 1) + Len(chunks[ci].rows[1])

\* the target row the k-th row (1-based) of chunk ci gets when every chunk
\* succeeds
TargetRowAllSucceed(ci, k) ==
    originalStructure.dataStartRow + RowsBefore(ci) + (k - 1)

\* some chunk of the plan failed, some succeeded
OneChunkFailed ==
    /\ parsePc = "returned"
    /\ Len(WithStatus(chunkResponses, "error")) = 1
    /\ Len(WithStatus(chunkResponses, "success")) >= 1

\* C26: under handleMissingChunks = 'skip' or 'interpolate' the target row
\* of every row of a successful chunk is the target row that row gets when
\* all chunks succeed: the failure of a chunk does not change where the
\* rows of the other chunks are written.
C26_TargetRowsUnmoved ==
    parsePc = "returned" =>
        \A m \in 1..Len(cellMappings) :
            cellMappings[m].targetRow =
                TargetRowAllSucceed(cellMappings[m].value.id[1],
                                    cellMappings[m].value.id[2])

----------------------------------------------------------------------------
\* Liveness of the refresh handler (SpecRefreshLive)

\* C27: every refresh invocation that has passed the guard eventually
\* reaches its end, where it sets currentOperation to null, whether it
\* succeeds, fails in preprocessing, has failing chunks, throws or is
\* cancelled, provided every awaited call eventually settles; and once
\* every invocation has ended currentOperation stays null.
C27_GuardReleased ==
    /\ \A p \in Ops :
          (pc[p] = "loading") ~> (pc[p] = "done" /\ currentOperation.isNull)
    /\ [][(\A p \in Ops : pc[p] \in {"idle", "rejected", "done"})
             => currentOperation'.isNull]_vars

\* C27 witness: an invocation that dispatched a chunk and was cancelled
\* has ended, and currentOperation is null
C27_Witness ==
    \E p \in Ops :
        /\ pc[p] = "done"
        /\ cancelled[p]
        /\ dispatched[p] # <<>>
        /\ currentOperation.isNull

----------------------------------------------------------------------------
\* C28 (does not hold): one call of makeAuthenticatedRequest fetches the
\* endpoint at most twice, the first attempt and one retry after a 401
\* response.
C28_AtMostOneRetry == attempts <= 2

\* C29 (does not hold): chunk planning terminates for every setting of
\* maxCellsPerChunk, 0 and negative values included. The loop of
\* createDimensionBasedChunks counts i up by one from 0 while
\* i < targetChunkCount and has no other exit, so the call returns exactly
\* when that bound is finite.
C29_PlanningTerminates == (planPc = "loop") => (targetChunkCount < Infinity)

\* C30 (does not hold): after logout has run, and until a login is started,
\* isAuthenticated is false, the token of authState is null, no token is in
\* local storage and no refresh timer is scheduled, whatever calls were
\* awaiting a reply when logout ran.
C30_SessionStaysCleared ==
    loggedOut =>
        /\ ~authState.isAuthenticated
        /\ authState.token = 0
        /\ storedToken = 0
        /\ refreshTimer # "scheduled"

====
